---- MODULE Spec2Model ----
(***************************************************************************)
(* State-machine model of the synchronisation engine of cco-pinai:         *)
(*   - the lifelog sync engine (backend/src/services/sync.py) with its     *)
(*     datastore (database.py) and provider adapter (limitless.py);        *)
(*   - the calendar sync engine, token lifecycle and conflict detector     *)
(*     (backend/src/services/calendar_sync.py, google_calendar.py).        *)
(*                                                                         *)
(* Dates are day numbers.  A cursor is the number of the page it follows;  *)
(* 0 stands for Python's None (no cursor).                                 *)
(***************************************************************************)
EXTENDS Integers, Sequences, FiniteSets, TLC

\* ------------------------------------------------------------------ bounds

\* date.today(): the model's dates are 1 .. Today + 1 (one day in the future)
Today == 2

\* number of sync_from_date / incremental_sync invocations in one behaviour
MaxRuns == 2

\* number of failures (provider, datastore, progress delivery) injected in one behaviour
MaxFaults == 2

\* --------------------------------------------------------- lifelog: data

Users == {"u1", "u2"}

\* the users whose sync runs are followed; "u2" only owns rows stored earlier
SyncUsers == {"u1"}

Dates == 1 .. (Today + 1)

NoCursor == 0

\* The provider's pages of lifelog ids for a date (limitless.ai, external):
\* day 1 holds two pages, every other day one empty page.
Pages(d) ==
    CASE d = 1 -> << <<"a", "b">>, <<"c">> >>
      [] OTHER -> << <<>> >>

LifelogIds == {"a", "b", "c"}

SeqToSet(s) == {s[i] : i \in 1 .. Len(s)}

RECURSIVE SumOver(_, _)
\* the sum of f[x] over the finite set S
SumOver(S, f) ==
    IF S = {} THEN 0
    ELSE LET x == CHOOSE y \in S : TRUE IN f[x] + SumOver(S \ {x}, f)

VARIABLES
    \* ---- lifelog sync run (LimitlessSyncService) ----
    pc,             \* position of the run: idle, cursor_loop, date_ok, date_err, returned, raised
    call,           \* the invocation: [op, user_id, start_date, end_date]
    current_date,   \* sync_from_date's loop variable
    sync_state,     \* the in-memory SyncState dataclass of the run
    loop,           \* locals of _sync_date_with_cursor: cursor, has_more, total_synced
    requests,       \* history: provider requests of this run, [date, cursor]
    date_writes,    \* history: transcript rows written since the date's cursor loop began
    runs,           \* history: number of invocations so far
    saves,          \* history: successful save_lifelog_as_transcript calls per (user, lifelog)
    failed_at,      \* history: the call of the current date's try block that raised, or "none"
    completed,      \* history: the dates whose cursor loop has run to completion
    crashes,        \* history: number of runs that the process did not survive
    \* ---- datastore (Supabase) ----
    transcripts,    \* table transcripts: set of rows (each with its own id)
    db_sync_state,  \* table sync_state: set of rows, unique on (user_id, service_name)
    sync_errors,    \* table sync_errors: append-only sequence of rows
    faults,         \* history: number of failures injected so far
    unique_limitless_id,  \* whether the table carries transcripts_limitless_id_unique
    \* ---- two sync runs of one user that overlap ----
    workers,        \* per run: the lifelogs left, the result of its select, its position
    \* ---- calendar sync (CalendarSyncService) and its tables ----
    now,                   \* datetime.utcnow(), in minutes
    calendar_events,       \* table calendar_events: set of rows (each with its own id)
    user_calendar_tokens,  \* table user_calendar_tokens, unique on (user_id, provider)
    calendar_sync_state,   \* table calendar_sync_state, unique on (user_id, provider, calendar_id)
    cal_result,            \* history: what the last calendar operation did and returned
    cal_calls,             \* history: number of calendar operations so far
    cal_faults             \* history: number of failures injected into calendar operations

lifelogVars == <<pc, call, current_date, sync_state, loop, requests, date_writes, runs, saves,
                 failed_at, completed, crashes, transcripts, db_sync_state, sync_errors, faults>>

calendarVars == <<now, calendar_events, user_calendar_tokens, calendar_sync_state,
                  cal_result, cal_calls, cal_faults>>

vars == <<lifelogVars, calendarVars, workers, unique_limitless_id>>

\* ------------------------------------------------- lifelog: provider adapter

\* LimitlessService.list_lifelogs_by_date: the page after `cursor`, the cursor
\* of the next page (None after the last one) and has_more = bool(nextCursor).
list_lifelogs_by_date(target_date, cursor) ==
    LET chain == Pages(target_date)
        next_cursor == IF cursor + 1 < Len(chain) THEN cursor + 1 ELSE NoCursor
    IN  [lifelogs    |-> chain[cursor + 1],
         next_cursor |-> next_cursor,
         has_more    |-> next_cursor # NoCursor]

\* ------------------------------------------------------ lifelog: datastore

\* select * from transcripts where limitless_id = lifelog and user_id = user
ExistingTranscripts(tr, lifelog, user_id) ==
    {r \in tr : r.limitless_id = lifelog /\ r.user_id = user_id}

\* The id the datastore generates for a new row: unique in the table
\* (the n-th row ever inserted for the same user and lifelog).
NewTranscriptId(tr, lifelog, user_id) ==
    <<user_id, lifelog, Cardinality(ExistingTranscripts(tr, lifelog, user_id)) + 1>>

\* DatabaseService._create_new_transcript: insert one row, status "completed"
create_new_transcript(tr, lifelog, user_id) ==
    tr \cup {[id           |-> NewTranscriptId(tr, lifelog, user_id),
               user_id      |-> user_id,
               limitless_id |-> lifelog,
               source       |-> "limitless",
               status       |-> "completed",
               updates      |-> 0]}

\* DatabaseService._update_existing_transcript: update ... where id = existing.id
update_existing_transcript(tr, existing_id, lifelog, user_id) ==
    {IF r.id = existing_id THEN [r EXCEPT !.updates = @ + 1] ELSE r : r \in tr}

AlwaysInsertTranscript(tr, lifelog, user_id) ==
    create_new_transcript(tr, lifelog, user_id)

\* DatabaseService.save_lifelog_as_transcript: update the existing row of
\* (user, lifelog) if the select finds one, insert a new row otherwise.
save_lifelog_as_transcript(tr, lifelog, user_id) ==
    LET existing == ExistingTranscripts(tr, lifelog, user_id)
    IN  IF existing # {}
        THEN LET first == CHOOSE r \in existing : \A q \in existing : r.id[3] <= q.id[3]
             IN  update_existing_transcript(tr, first.id, lifelog, user_id)
        ELSE create_new_transcript(tr, lifelog, user_id)

\* DatabaseService.save_sync_state: upsert on (user_id, service_name)
save_sync_state(tbl, user_id, service_name, last_sync_date, last_cursor, total_synced) ==
    {r \in tbl : ~(r.user_id = user_id /\ r.service_name = service_name)}
    \cup {[user_id        |-> user_id,
           service_name   |-> service_name,
           last_sync_date |-> last_sync_date,
           last_cursor    |-> last_cursor,
           total_synced   |-> total_synced]}

\* DatabaseService.get_sync_state: the rows of (user, service); data[0] or None
get_sync_state(tbl, user_id, service_name) ==
    {r \in tbl : r.user_id = user_id /\ r.service_name = service_name}

\* DatabaseService.log_sync_error: insert into sync_errors
log_sync_error(tbl, user_id, service_name, date) ==
    Append(tbl, [user_id |-> user_id, service_name |-> service_name, date |-> date])

\* The number of row writes a table has seen: one per insert, one per update.
Writes(tr) == SumOver(tr, [r \in tr |-> 1 + r.updates])

\* --------------------------------------------------- lifelog: sync engine

RECURSIVE process_lifelog_batch(_, _, _, _, _)
RECURSIVE CountEveryLifelog(_, _, _, _, _)

CountEveryLifelog(tr, sv, lifelogs, user_id, failing) ==
    IF lifelogs = <<>>
    THEN [transcripts |-> tr, saves |-> sv, processed_count |-> 0]
    ELSE LET lifelog == Head(lifelogs)
             ok      == lifelog \notin failing
             tr1     == IF ok THEN save_lifelog_as_transcript(tr, lifelog, user_id) ELSE tr
             sv1     == IF ok THEN [sv EXCEPT ![<<user_id, lifelog>>] = @ + 1] ELSE sv
             rest    == CountEveryLifelog(tr1, sv1, Tail(lifelogs), user_id, failing)
         IN  [rest EXCEPT !.processed_count = @ + 1]

RECURSIVE StopAtFirstFailure(_, _, _, _, _)
StopAtFirstFailure(tr, sv, lifelogs, user_id, failing) ==
    IF lifelogs = <<>> \/ Head(lifelogs) \in failing
    THEN [transcripts |-> tr, saves |-> sv, processed_count |-> 0]
    ELSE LET lifelog == Head(lifelogs)
             tr1     == save_lifelog_as_transcript(tr, lifelog, user_id)
             sv1     == [sv EXCEPT ![<<user_id, lifelog>>] = @ + 1]
             rest    == StopAtFirstFailure(tr1, sv1, Tail(lifelogs), user_id, failing)
         IN  [rest EXCEPT !.processed_count = @ + 1]

\* LimitlessSyncService._process_lifelog_batch: save each lifelog of the page in
\* order; a save that raises (the ids in `failing`) is logged and skipped.
\* Yields the table, the per-key save history and processed_count.
process_lifelog_batch(tr, sv, lifelogs, user_id, failing) ==
    IF lifelogs = <<>>
    THEN [transcripts |-> tr, saves |-> sv, processed_count |-> 0]
    ELSE LET lifelog == Head(lifelogs)
             ok      == lifelog \notin failing
             tr1     == IF ok THEN save_lifelog_as_transcript(tr, lifelog, user_id) ELSE tr
             sv1     == IF ok THEN [sv EXCEPT ![<<user_id, lifelog>>] = @ + 1] ELSE sv
             rest    == process_lifelog_batch(tr1, sv1, Tail(lifelogs), user_id, failing)
         IN  [rest EXCEPT !.processed_count = @ + (IF ok THEN 1 ELSE 0)]

\* A step may inject n more failures while the budget lasts.
Inject(n) ==
    /\ faults + n <= MaxFaults
    /\ faults' = faults + n

\* the locals of _sync_date_with_cursor on entry
FreshLoop == [cursor |-> NoCursor, has_more |-> TRUE, total_synced |-> 0]

\* SyncState(last_sync_date=start_date, total_synced=0)
NewSyncState(start_date) ==
    [last_sync_date |-> start_date, last_cursor |-> NoCursor,
     total_synced |-> 0, errors |-> <<>>]

PersistNextDate(tbl, user_id, date, state) ==
    save_sync_state(tbl, user_id, "limitless", date + 1, state.last_cursor,
                    state.total_synced)

\* sync_from_date's call of save_sync_state after a date: last_sync_date =
\* current_date, last_cursor = sync_state.last_cursor (which no statement ever
\* sets), total_synced = sync_state.total_synced
PersistSyncState(tbl, user_id, date, state) ==
    save_sync_state(tbl, user_id, "limitless", date, state.last_cursor,
                    state.total_synced)

SkipValidation(start_date, end_date) ==
    IF start_date <= end_date THEN "cursor_loop" ELSE "returned"

\* sync_from_date's check of the range, and where the run goes from it:
\* raise ValueError("start_date cannot be after end_date"), or the date loop.
ValidateRange(start_date, end_date) ==
    IF start_date > end_date THEN "raised" ELSE "cursor_loop"

\* The entry of sync_from_date: the validation, the SyncState of the run and
\* the first test of the date loop.
EnterRun(op, user_id, start_date, end_date) ==
    /\ call' = [op |-> op, user_id |-> user_id,
                start_date |-> start_date, end_date |-> end_date]
    /\ runs' = runs + 1
    /\ requests' = <<>>
    /\ date_writes' = 0
    /\ loop' = FreshLoop
    /\ pc' = ValidateRange(start_date, end_date)
    /\ current_date' = start_date
    /\ sync_state' = NewSyncState(start_date)
    /\ failed_at' = "none"
    /\ UNCHANGED <<saves, completed, crashes, transcripts, db_sync_state, sync_errors, faults>>
    /\ UNCHANGED calendarVars
    /\ UNCHANGED <<workers, unique_limitless_id>>

\* a sync is invoked when no run is in progress (one sync per user at a time)
Callable == pc \in {"idle", "returned", "raised", "crashed"} /\ runs < MaxRuns

\* LimitlessSyncService.sync_from_date(start_date, end_date): end_date None is today
sync_from_date ==
    /\ Callable
    /\ \E user_id \in SyncUsers, start_date \in Dates, end_date \in Dates \cup {0} :
          EnterRun("sync_from_date", user_id, start_date,
                   IF end_date = 0 THEN Today ELSE end_date)

ResumeAfterLastSyncDate(user_id) ==
    LET db == get_sync_state(db_sync_state, user_id, "limitless")
    IN  IF db # {} THEN (CHOOSE r \in db : TRUE).last_sync_date + 1 ELSE Today - 1

\* incremental_sync's start date: the stored last_sync_date, or yesterday
\* when no state is stored.
ResumeDate(user_id) ==
    LET db == get_sync_state(db_sync_state, user_id, "limitless")
    IN  IF db # {} THEN (CHOOSE r \in db : TRUE).last_sync_date ELSE Today - 1

\* LimitlessSyncService.incremental_sync(): sync_from_date(start_date) from
\* the resume date, end_date defaulting to today.
incremental_sync ==
    /\ Callable
    /\ \E user_id \in SyncUsers :
          EnterRun("incremental_sync", user_id, ResumeDate(user_id), Today)

\* current_date += 1 and the test of the while loop
NextDate ==
    /\ current_date' = current_date + 1
    /\ loop' = FreshLoop
    /\ date_writes' = 0
    /\ failed_at' = "none"
    /\ pc' = IF current_date + 1 <= call.end_date THEN "cursor_loop" ELSE "returned"

KeepCursor(lp, result, batch_synced) ==
    [cursor       |-> lp.cursor,
     has_more     |-> result.has_more,
     total_synced |-> lp.total_synced + batch_synced]

\* The cursor loop's bookkeeping for one page: cursor = result["next_cursor"],
\* has_more = result["has_more"], total_synced += batch_synced.
AdvanceLoop(lp, result, batch_synced) ==
    [cursor       |-> result.next_cursor,
     has_more     |-> result.has_more,
     total_synced |-> lp.total_synced + batch_synced]

\* One iteration of the cursor loop of _sync_date_with_cursor: fetch the page
\* after the cursor, save its lifelogs, notify batch_processed.
sync_date_with_cursor ==
    /\ pc = "cursor_loop"
    /\ requests' = Append(requests, [date |-> current_date, cursor |-> loop.cursor])
    /\ \/ \* the provider call raises LimitlessAPIError
          /\ Inject(1)
          /\ pc' = "date_err"
          /\ failed_at' = "list_lifelogs_by_date"
          /\ UNCHANGED <<loop, transcripts, saves, date_writes, completed>>
       \/ \E failing \in SUBSET LifelogIds, delivered \in BOOLEAN :
             LET result == list_lifelogs_by_date(current_date, loop.cursor)
                 batch  == process_lifelog_batch(transcripts, saves, result.lifelogs,
                                                 call.user_id, failing)
                 next   == AdvanceLoop(loop, result, batch.processed_count)
             IN  /\ failing \subseteq SeqToSet(result.lifelogs)
                 /\ (result.lifelogs = <<>> => delivered)
                 /\ Inject(Cardinality(failing) + (IF delivered THEN 0 ELSE 1))
                 /\ transcripts' = batch.transcripts
                 /\ saves' = batch.saves
                 /\ date_writes' = date_writes + Writes(batch.transcripts) - Writes(transcripts)
                 /\ loop' = next
                 /\ pc' = IF ~delivered THEN "date_err"
                          ELSE IF next.has_more THEN "cursor_loop" ELSE "date_ok"
                 /\ failed_at' = IF delivered THEN "none" ELSE "batch_processed"
                 /\ completed' = IF delivered /\ ~next.has_more
                                 THEN completed \cup {current_date} ELSE completed
    /\ UNCHANGED <<call, current_date, sync_state, runs, crashes, db_sync_state, sync_errors>>
    /\ UNCHANGED calendarVars
    /\ UNCHANGED <<workers, unique_limitless_id>>

\* sync_from_date after the cursor loop returned: add the date's count,
\* persist the sync state, notify date_completed.
date_completed ==
    /\ pc = "date_ok"
    /\ sync_state' = [sync_state EXCEPT !.total_synced = @ + loop.total_synced,
                                        !.last_sync_date = current_date]
    /\ \/ \* save_sync_state raises
          /\ Inject(1)
          /\ pc' = "date_err"
          /\ failed_at' = "save_sync_state"
          /\ UNCHANGED <<db_sync_state, current_date, loop, date_writes>>
       \/ /\ db_sync_state' = PersistSyncState(db_sync_state, call.user_id, current_date,
                                               sync_state')
          /\ \/ \* the progress callback raises
                /\ Inject(1)
                /\ pc' = "date_err"
                /\ failed_at' = "date_completed"
                /\ UNCHANGED <<current_date, loop, date_writes>>
             \/ NextDate /\ UNCHANGED faults
    /\ UNCHANGED <<call, requests, runs, saves, completed, crashes, transcripts, sync_errors>>
    /\ UNCHANGED calendarVars
    /\ UNCHANGED <<workers, unique_limitless_id>>

\* sync_from_date's except branch: record the date in errors and in
\* sync_errors, notify error; the callback is not guarded here.
date_failed ==
    /\ pc = "date_err"
    /\ sync_state' = [sync_state EXCEPT !.errors = Append(@, current_date)]
    /\ \E logged, delivered \in BOOLEAN :
          /\ Inject((IF logged THEN 0 ELSE 1) + (IF delivered THEN 0 ELSE 1))
          /\ IF logged
             THEN sync_errors' = log_sync_error(sync_errors, call.user_id, "limitless",
                                                current_date)
             ELSE \* log_sync_error swallows a failed insert
                  UNCHANGED sync_errors
          /\ IF delivered
             THEN NextDate
             ELSE \* the progress callback raises: the exception leaves sync_from_date
                  pc' = "raised" /\ UNCHANGED <<current_date, loop, date_writes, failed_at>>
    /\ UNCHANGED <<call, requests, runs, saves, completed, crashes, transcripts,
                   db_sync_state>>
    /\ UNCHANGED calendarVars
    /\ UNCHANGED <<workers, unique_limitless_id>>

\* The process stops in the middle of a run (the awaits of sync_from_date and
\* _sync_date_with_cursor are the points where it can): the tables stay as they
\* are, the SyncState and the locals of the run are lost with the process.
crash ==
    /\ pc \in {"cursor_loop", "date_ok", "date_err"}
    /\ pc' = "crashed"
    /\ crashes' = crashes + 1
    /\ UNCHANGED <<call, current_date, sync_state, loop, requests, date_writes, runs, saves,
                   failed_at, completed, transcripts, db_sync_state, sync_errors, faults>>
    /\ UNCHANGED calendarVars
    /\ UNCHANGED <<workers, unique_limitless_id>>

\* ------------------------------------------------------- calendar: bounds

\* the last minute of the clock
MaxNow == 6

\* number of calendar operations in one behaviour
MaxCalls == 2

\* --------------------------------------------------------- calendar: data

\* the users whose calendar operations are followed; "u2" only owns rows stored earlier
CalUsers == {"u1"}

\* timedelta(minutes=5): a token is refreshed from this long before it expires
RefreshWindow == 5

\* Python's None for an access token
NoToken == 0

\* SQL NULL in a text column, in a timestamp column and in an encrypted column
Null == "null"

NoTime == 0

NoCipher == <<>>

\* the lifetimes (expires_in, in minutes) the token endpoint may answer with
ExpiresIn == {6, 60}

\* the access token the token endpoint issues first
FirstToken == 1

\* the ids Google gives to the events created through the API, in order
ExportIds == <<"x1", "x2", "x3", "x4", "x5">>

\* the event_data of create_event and of update_event
NewEventData ==
    {[title |-> <<"demo">>, description |-> "", start_time |-> 2, end_time |-> 4,
      location |-> "", attendees |-> <<>>]}

ChangedEventData ==
    {[title |-> <<"moved">>, description |-> "edited", start_time |-> 6, end_time |-> 8,
      location |-> "room", attendees |-> <<"bob">>]}

\* the statuses of the provider's answer to a delete: deleted, already gone,
\* and any other
NoContent == 204

Gone == 410

ServerError == 500

DeleteStatuses == {NoContent, Gone, ServerError}

\* the minutes of a day; timedelta(days=30) and timedelta(days=90) of a full pull
Day == 1440

FullSyncPastDays == 30

FullSyncAheadDays == 90

\* the minutes at which calendar operations are invoked: a token of 6 minutes
\* issued at minute 0 is outside the refresh window at 0, on its edge at 1 and
\* expired at MaxNow
Instants == {0, 1, MaxNow}

\* GoogleCalendarService.encrypt_token / decrypt_token (Fernet): opaque to the
\* store, and decrypt_token undoes encrypt_token.
encrypt_token(token) == <<"fernet", token>>

decrypt_token(encrypted_token) == encrypted_token[2]

\* A Google Calendar event as the API delivers it (class CalendarEvent); the
\* description, location, attendees and status are those of an answer that
\* carries none: '', '', [] and 'confirmed'.
CalendarEvent(id, title, start_time, end_time) ==
    [id |-> id, title |-> title, description |-> "", start_time |-> start_time,
     end_time |-> end_time, location |-> "", attendees |-> <<>>, status |-> "confirmed"]

\* The answers of GoogleCalendarService.get_events (Google, external): three
\* events of which the last two overlap each other; a first page of a longer
\* list, which carries nextPageToken and no nextSyncToken; or nothing new.
GoogleResponses ==
    << [events |-> << CalendarEvent("g1", "standup", 1, 3),
                      CalendarEvent("g2", "review", 4, 6),
                      CalendarEvent("g3", "lunch", 5, 7) >>,
        next_sync_token |-> "s1", next_page_token |-> Null],
       [events |-> << CalendarEvent("g1", "standup", 1, 3) >>,
        next_sync_token |-> Null, next_page_token |-> "p2"],
       [events |-> <<>>, next_sync_token |-> "s2", next_page_token |-> Null] >>

\* The events of the pull that the provider keeps on the pages after the one
\* it answered with: those a request with pageToken = next_page_token, which
\* the sync engine never sends, would return.
LaterPages(next_page_token) ==
    IF next_page_token = "p2"
    THEN << CalendarEvent("g2", "review", 4, 6), CalendarEvent("g3", "lunch", 5, 7) >>
    ELSE <<>>

\* The answers of LimitlessService.get_recent_logs: a meeting from 2 to 4 and
\* a note, or an unsuccessful answer.
LimitlessResponses ==
    << [success |-> TRUE,
        data |-> << [id |-> "l1", type |-> "meeting", title |-> "sync", start_time |-> 2,
                     duration |-> 2],
                    [id |-> "n1", type |-> "note", title |-> "idea", start_time |-> 5,
                     duration |-> 1] >>],
       [success |-> FALSE, data |-> <<>>] >>

\* The failures and external answers one run of sync_user_calendar meets:
\*   refresh      0: refresh_access_token raises; else the expires_in it answers with
\*   google       0: get_events raises; else the index of its answer
\*   import_fail  0: no import fails; else the index of the event whose upsert raises
\*   limitless    the index of the answer of get_recent_logs
\*   echo         the answer of get_events also lists the events exported earlier
Environments ==
    [refresh : {0} \cup ExpiresIn, google : 0 .. Len(GoogleResponses),
     import_fail : {0, 2}, limitless : 1 .. Len(LimitlessResponses), echo : BOOLEAN]

\* the number of failures an environment injects
Faults(env) ==
    (IF env.refresh = 0 THEN 1 ELSE 0) + (IF env.google = 0 THEN 1 ELSE 0)
    + (IF env.import_fail = 0 THEN 0 ELSE 1)

SyncEnvs == {env \in Environments : Faults(env) <= MaxFaults}

\* the environment of a step that consults none of it
DefaultEnv ==
    [refresh |-> 60, google |-> Len(GoogleResponses), import_fail |-> 0,
     limitless |-> Len(LimitlessResponses), echo |-> FALSE]

\* ------------------------------------------------ calendar: token lifecycle

\* SELECT * FROM user_calendar_tokens WHERE user_id = $1 AND provider = 'google'
TokenRows(tokens, user_id) ==
    {r \in tokens : r.user_id = user_id /\ r.provider = "google"}

\* GoogleCalendarService.refresh_access_token: a new access token and its
\* expiry, utcnow() + expires_in; the answer carries no refresh token.
refresh_access_token(access_token, t, expires_in) ==
    [access_token |-> access_token + 1, expires_at |-> t + expires_in]

RefreshOnlyWhenExpired(token_data, t) ==
    token_data.expires_at # NoTime /\ t >= token_data.expires_at

\* the test of _get_valid_access_token: utcnow() >= expires_at - 5 minutes
NeedsRefresh(token_data, t) ==
    token_data.expires_at # NoTime /\ t >= token_data.expires_at - RefreshWindow

RefreshDropsRefreshToken(tokens, user_id, new_tokens) ==
    {IF r \in TokenRows(tokens, user_id)
        THEN [r EXCEPT !.access_token_encrypted = encrypt_token(new_tokens.access_token),
                       !.expires_at = new_tokens.expires_at,
                       !.refresh_token_encrypted = NoCipher]
        ELSE r : r \in tokens}

\* UPDATE user_calendar_tokens SET access_token_encrypted = $2, expires_at = $3
StoreRefreshedToken(tokens, user_id, new_tokens) ==
    {IF r \in TokenRows(tokens, user_id)
        THEN [r EXCEPT !.access_token_encrypted = encrypt_token(new_tokens.access_token),
                       !.expires_at = new_tokens.expires_at]
        ELSE r : r \in tokens}

\* the result of _get_valid_access_token: the token it returns (NoToken for
\* None), the token table afterwards, and what it did on the way
\* (refresh: "none", "ok" or "failed")
TokenResult(access_token, tokens, read, refresh) ==
    [access_token |-> access_token, tokens |-> tokens, read |-> read,
     refresh |-> refresh]

DropTokenOnFailedRefresh(tokens, user_id, t, env) ==
    LET rows == TokenRows(tokens, user_id)
    IN  IF rows = {} THEN TokenResult(NoToken, tokens, FALSE, "none")
        ELSE LET token_data   == CHOOSE r \in rows : TRUE
                 access_token == decrypt_token(token_data.access_token_encrypted)
             IN  IF NeedsRefresh(token_data, t)
                 THEN IF token_data.refresh_token_encrypted # NoCipher /\ env.refresh # 0
                      THEN LET new_tokens == refresh_access_token(access_token, t, env.refresh)
                           IN  TokenResult(new_tokens.access_token,
                                           StoreRefreshedToken(tokens, user_id, new_tokens),
                                           TRUE, "ok")
                      ELSE TokenResult(NoToken, tokens \ rows, TRUE,
                                       IF token_data.refresh_token_encrypted # NoCipher
                                       THEN "failed" ELSE "none")
                 ELSE TokenResult(access_token, tokens, TRUE, "none")

\* CalendarSyncService._get_valid_access_token at time t.  The exception of a
\* failed refresh is caught and None returned.
get_valid_access_token(tokens, user_id, t, env) ==
    LET rows == TokenRows(tokens, user_id)
    IN  IF rows = {} THEN TokenResult(NoToken, tokens, FALSE, "none")
        ELSE LET token_data   == CHOOSE r \in rows : TRUE
                 access_token == decrypt_token(token_data.access_token_encrypted)
             IN  IF NeedsRefresh(token_data, t)
                 THEN IF token_data.refresh_token_encrypted # NoCipher
                      THEN IF env.refresh # 0
                           THEN LET new_tokens ==
                                        refresh_access_token(access_token, t, env.refresh)
                                IN  TokenResult(new_tokens.access_token,
                                                StoreRefreshedToken(tokens, user_id,
                                                                    new_tokens),
                                                TRUE, "ok")
                           ELSE \* refresh_access_token raised GoogleCalendarError
                                TokenResult(NoToken, tokens, TRUE, "failed")
                      ELSE \* no refresh token, the user needs to re-authenticate
                           TokenResult(NoToken, tokens, TRUE, "none")
                 ELSE TokenResult(access_token, tokens, TRUE, "none")

\* ------------------------------------------------- calendar: event imports

\* the id of a new row of calendar_events: the owner, the source, the
\* provider's id and a serial number among the rows of that key
NewEventId(events, user_id, source, external_id) ==
    <<user_id, source, external_id,
      1 + Cardinality({r \in events : /\ r.id[1] = user_id
                                       /\ r.id[2] = source
                                       /\ r.id[3] = external_id})>>

\* CalendarEvent.to_dict: the row an imported Google event is stored as
to_dict(event) ==
    [google_event_id |-> event.id, title |-> <<event.title>>,
     description |-> event.description,
     start_time |-> event.start_time, end_time |-> event.end_time,
     location |-> event.location, attendees |-> event.attendees, status |-> event.status,
     source |-> "google", sync_status |-> "synced"]

AlwaysInsertGoogleEvent(events, user_id, event) ==
    LET event_dict == to_dict(event)
    IN  events \cup
        {[id |-> NewEventId(events, user_id, "google", event_dict.google_event_id),
          user_id |-> user_id,
          google_event_id |-> event_dict.google_event_id,
          limitless_id |-> Null,
          title |-> event_dict.title,
          description |-> event_dict.description,
          start_time |-> event_dict.start_time,
          end_time |-> event_dict.end_time,
          location |-> event_dict.location,
          attendees |-> event_dict.attendees,
          status |-> event_dict.status,
          source |-> event_dict.source,
          sync_status |-> event_dict.sync_status,
          sync_error |-> Null]}

KeepLocalEdits(events, user_id, event) ==
    IF \E r \in events : r.user_id = user_id /\ r.google_event_id = event.id
    THEN events
    ELSE AlwaysInsertGoogleEvent(events, user_id, event)

\* _import_google_event: INSERT ... ON CONFLICT (user_id, google_event_id) DO UPDATE
\* SET title, description, start_time, end_time, location, attendees,
\* sync_status, status (and all_day, etag, sequence) = EXCLUDED's
import_google_event(events, user_id, event) ==
    LET event_dict == to_dict(event)
        hit == {r \in events : /\ r.user_id = user_id
                               /\ r.google_event_id = event_dict.google_event_id}
    IN  IF hit = {}
        THEN events \cup
             {[id |-> NewEventId(events, user_id, "google", event_dict.google_event_id),
               user_id |-> user_id,
               google_event_id |-> event_dict.google_event_id,
               limitless_id |-> Null,
               title |-> event_dict.title,
               description |-> event_dict.description,
               start_time |-> event_dict.start_time,
               end_time |-> event_dict.end_time,
               location |-> event_dict.location,
               attendees |-> event_dict.attendees,
               status |-> event_dict.status,
               source |-> event_dict.source,
               sync_status |-> event_dict.sync_status,
               sync_error |-> Null]}
        ELSE (events \ hit) \cup
             {[r EXCEPT !.title = event_dict.title,
                        !.description = event_dict.description,
                        !.start_time = event_dict.start_time,
                        !.end_time = event_dict.end_time,
                        !.location = event_dict.location,
                        !.attendees = event_dict.attendees,
                        !.sync_status = event_dict.sync_status,
                        !.status = event_dict.status] : r \in hit}

\* _import_limitless_event: end = start + duration; description is the item's
\* summary, '' without one; location, attendees and status are not written;
\* INSERT ... ON CONFLICT (user_id, limitless_id) DO UPDATE
import_limitless_event(events, user_id, limitless_item) ==
    LET title == <<"Meeting: ", limitless_item.title>>
        description == ""
        start_datetime == limitless_item.start_time
        end_datetime == start_datetime + limitless_item.duration
        hit == {r \in events : /\ r.user_id = user_id
                               /\ r.limitless_id = limitless_item.id}
    IN  IF limitless_item.start_time = NoTime THEN events
        ELSE IF hit = {}
        THEN events \cup
             {[id |-> NewEventId(events, user_id, "limitless", limitless_item.id),
               user_id |-> user_id,
               google_event_id |-> Null,
               limitless_id |-> limitless_item.id,
               title |-> title,
               description |-> description,
               start_time |-> start_datetime,
               end_time |-> end_datetime,
               location |-> Null,
               attendees |-> Null,
               status |-> Null,
               source |-> "limitless",
               sync_status |-> "synced",
               sync_error |-> Null]}
        ELSE (events \ hit) \cup
             {[r EXCEPT !.title = title,
                        !.description = description,
                        !.start_time = start_datetime,
                        !.end_time = end_datetime] : r \in hit}

\* --------------------------------------------- calendar: conflict detector

FlagAnyOverlap(e1, e2, user_id) ==
    /\ e1.user_id = e2.user_id
    /\ e1.user_id = user_id
    /\ e1.id # e2.id
    /\ e1.sync_status # "deleted"
    /\ e2.sync_status # "deleted"
    /\ e1.start_time < e2.end_time
    /\ e1.end_time > e2.start_time

FlagDeletedEvents(e1, e2, user_id) ==
    /\ e1.user_id = e2.user_id
    /\ e1.user_id = user_id
    /\ e1.id # e2.id
    /\ e1.start_time < e2.end_time
    /\ e1.end_time > e2.start_time
    /\ e1.source # e2.source

\* the join and WHERE clause of _detect_conflicts for the rows e1, e2
OverlappingEvents(e1, e2, user_id) ==
    /\ e1.user_id = e2.user_id
    /\ e1.user_id = user_id
    /\ e1.id # e2.id
    /\ e1.sync_status # "deleted"
    /\ e2.sync_status # "deleted"
    /\ e1.start_time < e2.end_time
    /\ e1.end_time > e2.start_time
    /\ e1.source # e2.source

\* _detect_conflicts: one conflict per row of the self-join
detect_conflicts(events, user_id) ==
    LET mine == {r \in events : r.user_id = user_id}
    IN  {[type |-> "time_overlap", events |-> <<p[1].id, p[2].id>>] :
            p \in {q \in mine \X events : OverlappingEvents(q[1], q[2], user_id)}}

\* ------------------------------------------------- calendar: sync functions

\* SELECT * FROM calendar_sync_state WHERE user_id = $1 AND provider = 'google'
SyncStateRows(state, user_id) ==
    {r \in state : r.user_id = user_id /\ r.provider = "google"}

\* the result dict of _sync_google_calendar and _sync_limitless_events
SyncResult(imported, errors) ==
    [imported |-> imported, exported |-> 0, errors |-> errors]

RECURSIVE import_google_events(_, _, _)
\* the import loop of _sync_google_calendar over a list of events
import_google_events(events, user_id, event_list) ==
    IF event_list = <<>> THEN events
    ELSE import_google_events(import_google_event(events, user_id, Head(event_list)),
                              user_id, Tail(event_list))

KeepSyncToken(state, user_id, next_sync_token, imported) ==
    {IF r \in SyncStateRows(state, user_id)
        THEN [r EXCEPT !.full_sync_completed = TRUE,
                       !.events_imported = @ + imported]
        ELSE r : r \in state}

\* UPDATE calendar_sync_state SET next_sync_token = $3, full_sync_completed = TRUE,
\* events_imported = events_imported + $4 WHERE user_id = $1 AND provider = $2
RecordGoogleSync(state, user_id, next_sync_token, imported) ==
    {IF r \in SyncStateRows(state, user_id)
        THEN [r EXCEPT !.next_sync_token = next_sync_token,
                       !.full_sync_completed = TRUE,
                       !.events_imported = @ + imported]
        ELSE r : r \in state}

\* the rows of the events of this application that were exported to Google
ExportedRows(events, user_id) ==
    {r \in events : /\ r.user_id = user_id
                    /\ r.source = "ccopinai"
                    /\ r.google_event_id # Null}

RECURSIVE AsEvents(_)
\* the exported events as Google lists them
AsEvents(rows) ==
    IF rows = {} THEN <<>>
    ELSE LET r == CHOOSE x \in rows : TRUE
         IN  <<[CalendarEvent(r.google_event_id, r.title[1], r.start_time, r.end_time)
                   EXCEPT !.description = r.description, !.location = r.location,
                          !.attendees = r.attendees]>>
             \o AsEvents(rows \ {r})

\* the answer of GoogleCalendarService.get_events in an environment
get_events(events, user_id, env) ==
    LET answer == GoogleResponses[env.google]
    IN  IF env.echo
        THEN [answer EXCEPT !.events = @ \o AsEvents(ExportedRows(events, user_id))]
        ELSE answer

\* sync_token = None if force_full_sync else sync_state.get('next_sync_token')
AlwaysStoredSyncToken(force_full_sync, sync_state_row) == sync_state_row.next_sync_token

SyncToken(force_full_sync, sync_state_row) ==
    IF force_full_sync THEN Null ELSE sync_state_row.next_sync_token

\* time_min and time_max of _sync_google_calendar, each None (<<>>) when a sync
\* token is used: utcnow() - 30 days, utcnow() + 90 days
TimeMin(sync_token, t) == IF sync_token = Null THEN <<t - FullSyncPastDays * Day>> ELSE <<>>

TimeMax(sync_token, t) == IF sync_token = Null THEN <<t + FullSyncAheadDays * Day>> ELSE <<>>

\* the query parameters GoogleCalendarService.get_events sends: the sync token
\* alone when there is one, else the bounds of the time range that are given
get_events_params(time_min, time_max, sync_token) ==
    IF sync_token # Null
    THEN [syncToken |-> <<sync_token>>, timeMin |-> <<>>, timeMax |-> <<>>]
    ELSE [syncToken |-> <<>>, timeMin |-> time_min, timeMax |-> time_max]

RecordSyncAfterStoreFailure(db, user_id, force_full_sync, t, env) ==
    LET token == get_valid_access_token(db.tokens, user_id, t, env)
        db1   == [db EXCEPT !.tokens = token.tokens]
        rows  == SyncStateRows(db.state, user_id)
    IN  IF token.access_token = NoToken
        THEN [db |-> db1, result |-> SyncResult(0, <<"No valid Google Calendar token">>),
              token |-> token, requests |-> <<>>]
        ELSE IF rows = {}
        THEN [db |-> db1, result |-> SyncResult(0, <<"No sync state found">>),
              token |-> token, requests |-> <<>>]
        ELSE LET sync_state_row == CHOOSE r \in rows : TRUE
                 sync_token == SyncToken(force_full_sync, sync_state_row)
                 request(answer) ==
                     [api |-> "get_events", access_token |-> token.access_token,
                      calendar_id |-> sync_state_row.calendar_id,
                      arg |-> sync_token,
                      params |-> get_events_params(TimeMin(sync_token, t),
                                                   TimeMax(sync_token, t), sync_token),
                      answer |-> answer]
             IN  IF env.google = 0
                 THEN [db |-> db1, result |-> SyncResult(0, <<"GoogleCalendarError">>),
                       token |-> token, requests |-> <<request("GoogleCalendarError")>>]
                 ELSE LET events_data == get_events(db.events, user_id, env)
                          n == Len(events_data.events)
                          k == IF env.import_fail \in 1 .. n THEN env.import_fail - 1 ELSE n
                      IN  [db |-> [db1 EXCEPT
                                     !.events = import_google_events(db.events, user_id,
                                                    SubSeq(events_data.events, 1, k)),
                                     !.state = RecordGoogleSync(db.state, user_id,
                                                   events_data.next_sync_token, k)],
                           result |-> SyncResult(k, IF k = n THEN <<>>
                                                    ELSE <<"store error">>),
                           token |-> token,
                           requests |-> <<request(events_data.next_sync_token)>>]

\* _sync_google_calendar on the tables db = [events, tokens, state] at time t:
\* the tables afterwards, the result dict, the token check and the requests made
sync_google_calendar(db, user_id, force_full_sync, t, env) ==
    LET token == get_valid_access_token(db.tokens, user_id, t, env)
        db1   == [db EXCEPT !.tokens = token.tokens]
        rows  == SyncStateRows(db.state, user_id)
    IN  IF token.access_token = NoToken
        THEN [db |-> db1, result |-> SyncResult(0, <<"No valid Google Calendar token">>),
              token |-> token, requests |-> <<>>]
        ELSE IF rows = {}
        THEN [db |-> db1, result |-> SyncResult(0, <<"No sync state found">>),
              token |-> token, requests |-> <<>>]
        ELSE LET sync_state_row == CHOOSE r \in rows : TRUE
                 sync_token == SyncToken(force_full_sync, sync_state_row)
                 \* the request, with the next_sync_token of its answer
                 request(answer) ==
                     [api |-> "get_events", access_token |-> token.access_token,
                      calendar_id |-> sync_state_row.calendar_id,
                      arg |-> sync_token,
                      params |-> get_events_params(TimeMin(sync_token, t),
                                                   TimeMax(sync_token, t), sync_token),
                      answer |-> answer]
             IN  IF env.google = 0
                 THEN [db |-> db1, result |-> SyncResult(0, <<"GoogleCalendarError">>),
                       token |-> token, requests |-> <<request("GoogleCalendarError")>>]
                 ELSE LET events_data == get_events(db.events, user_id, env)
                          n == Len(events_data.events)
                      IN  IF env.import_fail \in 1 .. n
                          THEN \* the upsert of event import_fail raises: the events
                               \* before it stay imported, the sync state is not updated
                               [db |-> [db1 EXCEPT !.events =
                                          import_google_events(db.events, user_id,
                                              SubSeq(events_data.events, 1,
                                                     env.import_fail - 1))],
                                result |-> SyncResult(env.import_fail - 1, <<"store error">>),
                                token |-> token,
                                requests |-> <<request(events_data.next_sync_token)>>]
                          ELSE [db |-> [db1 EXCEPT
                                          !.events = import_google_events(db.events, user_id,
                                                                          events_data.events),
                                          !.state = RecordGoogleSync(db.state, user_id,
                                                        events_data.next_sync_token, n)],
                                result |-> SyncResult(n, <<>>),
                                token |-> token,
                                requests |-> <<request(events_data.next_sync_token)>>]

\* the items _sync_limitless_events imports: meetings and calls
IsMeeting(item) == item.type \in {"meeting", "call", "video_call"}

RECURSIVE import_limitless_items(_, _, _)
\* the import loop of _sync_limitless_events: [events, imported]
import_limitless_items(events, user_id, items) ==
    IF items = <<>> THEN [events |-> events, imported |-> 0]
    ELSE IF IsMeeting(Head(items))
    THEN [import_limitless_items(import_limitless_event(events, user_id, Head(items)),
                                 user_id, Tail(items))
             EXCEPT !.imported = @ + 1]
    ELSE import_limitless_items(events, user_id, Tail(items))

\* _sync_limitless_events
sync_limitless_events(db, user_id, env) ==
    LET limitless_data == LimitlessResponses[env.limitless]
    IN  IF ~limitless_data.success
        THEN [db |-> db, result |-> SyncResult(0, <<"Failed to get Limitless.ai data">>)]
        ELSE LET done == import_limitless_items(db.events, user_id, limitless_data.data)
             IN  [db |-> [db EXCEPT !.events = done.events],
                  result |-> SyncResult(done.imported, <<>>)]

\* _update_sync_statistics: UPDATE calendar_sync_state SET events_imported =
\* events_imported + $2, events_exported = events_exported + $3, ...
\* (the column conflicts_detected is not modelled)
update_sync_statistics(state, user_id, google_stats, conflicts) ==
    {IF r \in SyncStateRows(state, user_id)
        THEN [r EXCEPT !.events_imported = @ + google_stats.imported,
                       !.events_exported = @ + google_stats.exported]
        ELSE r : r \in state}

AbortOnImportFailure(db, user_id, force_full_sync, t, env) ==
    LET google    == sync_google_calendar(db, user_id, force_full_sync, t, env)
        limitless == sync_limitless_events(google.db, user_id, env)
        conflicts == detect_conflicts(limitless.db.events, user_id)
    IN  IF google.result.errors # <<>>
        THEN [db |-> google.db,
              results |-> [google |-> google.result, limitless |-> SyncResult(0, <<>>),
                           conflicts |-> {}],
              token |-> google.token,
              requests |-> google.requests]
        ELSE [db |-> [limitless.db EXCEPT !.state =
                         update_sync_statistics(limitless.db.state, user_id, google.result,
                                                conflicts)],
              results |-> [google |-> google.result, limitless |-> limitless.result,
                           conflicts |-> conflicts],
              token |-> google.token,
              requests |-> google.requests]

\* CalendarSyncService.sync_user_calendar on the tables db at time t
SyncUserCalendar(db, user_id, force_full_sync, t, env) ==
    LET google    == sync_google_calendar(db, user_id, force_full_sync, t, env)
        limitless == sync_limitless_events(google.db, user_id, env)
        conflicts == detect_conflicts(limitless.db.events, user_id)
    IN  [db |-> [limitless.db EXCEPT !.state =
                    update_sync_statistics(limitless.db.state, user_id, google.result,
                                           conflicts)],
         results |-> [google |-> google.result, limitless |-> limitless.result,
                      conflicts |-> conflicts],
         token |-> google.token,
         requests |-> google.requests]

\* ---------------------------------------------------- calendar: operations

\* the three tables as one value
Tables ==
    [events |-> calendar_events, tokens |-> user_calendar_tokens,
     state |-> calendar_sync_state]

SetTables(db) ==
    /\ calendar_events' = db.events
    /\ user_calendar_tokens' = db.tokens
    /\ calendar_sync_state' = db.state

\* A step draws from its environment only what its run consults: the refresh
\* answer when a refresh is called, the answer of get_events when the run has a
\* token and a sync state to request it with, the failing upsert when the
\* answer holds that event.
Consulted(env, db, user_id, t) ==
    LET token   == get_valid_access_token(db.tokens, user_id, t, env)
        reaches == token.access_token # NoToken /\ SyncStateRows(db.state, user_id) # {}
    IN  /\ token.refresh = "none" => env.refresh = DefaultEnv.refresh
        /\ ~reaches => env.google = DefaultEnv.google
        /\ env.import_fail # 0 => /\ reaches
                                  /\ env.google # 0
                                  /\ env.import_fail <= Len(GoogleResponses[env.google].events)
        /\ env.echo => /\ reaches
                       /\ env.google # 0
                       /\ ExportedRows(db.events, user_id) # {}

\* sync_results as sync_user_calendar initialises them
NoResults ==
    [google |-> SyncResult(0, <<>>), limitless |-> SyncResult(0, <<>>), conflicts |-> {}]

\* no call of _get_valid_access_token
NoCheck == TokenResult(NoToken, {}, FALSE, "none")

\* no event named by an operation
NoEvent == <<>>

\* the result dict of an export, a remote update or a remote delete
GoogleSync(success, google_event_id, error) ==
    [success |-> success, google_event_id |-> google_event_id, error |-> error]

\* google_sync_result = {'success': True}: nothing to do remotely
NoSync == GoogleSync(TRUE, Null, Null)

\* The record of a calendar operation: its name, user and time, whether it
\* raised CalendarSyncError, whether it checked the token (and the token table
\* before the check), the sync results and the provider requests, the event
\* it names and the sync_status it found on its row, the google_sync it
\* returns, the order of its effects and the force_full_sync it was called with.
CalResult(op, user_id, raised, checked, before, token, results, calls) ==
    [op |-> op, user_id |-> user_id, at |-> now, raised |-> raised, checked |-> checked,
     token_before |-> before, token |-> token, results |-> results, requests |-> calls,
     event_id |-> NoEvent, google_sync |-> NoSync, steps |-> <<>>,
     force_full_sync |-> FALSE, status_before |-> "none"]

\* a calendar operation is invoked while the budget of operations lasts
CalCallable == cal_calls < MaxCalls

\* the environments whose failures the budget of failures still allows
AllowedEnvs == {env \in SyncEnvs : cal_faults + Faults(env) <= MaxFaults}

\* A calendar operation counts itself and the n failures it meets.
CalStep(n) ==
    /\ cal_calls' = cal_calls + 1
    /\ cal_faults + n <= MaxFaults
    /\ cal_faults' = cal_faults + n
    /\ UNCHANGED now
    /\ UNCHANGED lifelogVars
    /\ UNCHANGED <<workers, unique_limitless_id>>

\* the budget of failures allows n more
FaultsAllowed(n) == cal_faults + n <= MaxFaults

\* The environment of an operation that only checks the token:
\*   refresh   0: refresh_access_token raises; else the expires_in it answers with
TokenEnv(refresh) == [DefaultEnv EXCEPT !.refresh = refresh]

AccessWithoutToken(db, user_id, t, env) ==
    LET token == get_valid_access_token(db.tokens, user_id, t, env)
        rows  == SyncStateRows(db.state, user_id)
    IN  [db |-> [db EXCEPT !.tokens = token.tokens],
         token |-> token,
         error |-> IF rows = {} THEN "No calendar configured" ELSE Null,
         calendar_id |-> IF rows = {} THEN Null ELSE (CHOOSE r \in rows : TRUE).calendar_id]

\* The token check and the sync state lookup that the export, the remote update
\* and the remote delete begin with: the error they return without a token or
\* without a sync state, else the calendar to address.
CalendarAccess(db, user_id, t, env) ==
    LET token == get_valid_access_token(db.tokens, user_id, t, env)
        rows  == SyncStateRows(db.state, user_id)
    IN  [db |-> [db EXCEPT !.tokens = token.tokens],
         token |-> token,
         error |-> IF token.access_token = NoToken THEN "No valid access token"
                   ELSE IF rows = {} THEN "No calendar configured"
                   ELSE Null,
         calendar_id |-> IF rows = {} THEN Null ELSE (CHOOSE r \in rows : TRUE).calendar_id]

\* a provider answer is drawn only when the request is made
Answered(access, answer, default) == access.error # Null => answer = default

\* the id Google gives to the next event created through the API
FreshGoogleId(events) ==
    ExportIds[1 + Cardinality({r \in events : r.google_event_id \in SeqToSet(ExportIds)})]

\* _export_to_google_calendar; created: the provider accepts the new event
export_to_google_calendar(db, user_id, event_data, t, env, created) ==
    LET access == CalendarAccess(db, user_id, t, env)
        request == [api |-> "create_event", access_token |-> access.token.access_token,
                    calendar_id |-> access.calendar_id, arg |-> event_data.title[1],
                    answer |-> IF created THEN FreshGoogleId(db.events)
                               ELSE "GoogleCalendarError"]
    IN  IF access.error # Null
        THEN [db |-> access.db, result |-> GoogleSync(FALSE, Null, access.error),
              token |-> access.token, requests |-> <<>>]
        ELSE IF created
        THEN [db |-> access.db,
              result |-> GoogleSync(TRUE, FreshGoogleId(db.events), Null),
              token |-> access.token, requests |-> <<request>>]
        ELSE [db |-> access.db, result |-> GoogleSync(FALSE, Null, "GoogleCalendarError"),
              token |-> access.token, requests |-> <<request>>]

\* _update_google_calendar_event; updated: the provider accepts the change
update_google_calendar_event(db, user_id, google_event_id, event_data, t, env, updated) ==
    LET access == CalendarAccess(db, user_id, t, env)
        request == [api |-> "update_event", access_token |-> access.token.access_token,
                    calendar_id |-> access.calendar_id, arg |-> google_event_id,
                    answer |-> IF updated THEN "ok" ELSE "GoogleCalendarError"]
    IN  IF access.error # Null
        THEN [db |-> access.db, result |-> GoogleSync(FALSE, Null, access.error),
              token |-> access.token, requests |-> <<>>]
        ELSE IF updated
        THEN [db |-> access.db, result |-> NoSync,
              token |-> access.token, requests |-> <<request>>]
        ELSE [db |-> access.db, result |-> GoogleSync(FALSE, Null, "GoogleCalendarError"),
              token |-> access.token, requests |-> <<request>>]

GoneIsFailure(status) ==
    IF status = NoContent THEN [raised |-> FALSE, value |-> TRUE]
    ELSE [raised |-> TRUE, value |-> FALSE]

\* GoogleCalendarService.delete_event on the status of the provider's response:
\* 204 and 410 give True, every other status raises GoogleCalendarError
google_delete_event(status) ==
    IF status = NoContent THEN [raised |-> FALSE, value |-> TRUE]
    ELSE IF status = Gone THEN [raised |-> FALSE, value |-> TRUE]
    ELSE [raised |-> TRUE, value |-> FALSE]

\* _delete_google_calendar_event: the token check, the calendar of the sync
\* state and the provider's delete; every failure becomes success = False
delete_google_calendar_event(db, user_id, google_event_id, t, env, status) ==
    LET access == CalendarAccess(db, user_id, t, env)
        request == [api |-> "delete_event", access_token |-> access.token.access_token,
                    calendar_id |-> access.calendar_id, arg |-> google_event_id,
                    answer |-> status]
        success == google_delete_event(status)
    IN  IF access.error # Null
        THEN [db |-> access.db, result |-> GoogleSync(FALSE, Null, access.error),
              token |-> access.token, requests |-> <<>>]
        ELSE IF success.raised
        THEN [db |-> access.db, result |-> GoogleSync(FALSE, Null, "GoogleCalendarError"),
              token |-> access.token, requests |-> <<request>>]
        ELSE [db |-> access.db, result |-> GoogleSync(success.value, Null, Null),
              token |-> access.token, requests |-> <<request>>]

\* connect_google_calendar's upsert of the exchanged tokens:
\* INSERT INTO user_calendar_tokens ... ON CONFLICT (user_id, provider) DO UPDATE
StoreTokens(tokens, user_id, access_token, refresh_token, expires_at) ==
    (tokens \ TokenRows(tokens, user_id)) \cup
    {[user_id |-> user_id, provider |-> "google",
      access_token_encrypted |-> encrypt_token(access_token),
      refresh_token_encrypted |-> IF refresh_token = Null THEN NoCipher
                                  ELSE encrypt_token(refresh_token),
      expires_at |-> expires_at]}

\* _initialize_sync_state: INSERT INTO calendar_sync_state ...
\* ON CONFLICT (user_id, provider, calendar_id) DO UPDATE SET updated_at = NOW()
initialize_sync_state(state, user_id, calendar_id) ==
    IF \E r \in SyncStateRows(state, user_id) : r.calendar_id = calendar_id
    THEN state
    ELSE state \cup
         {[user_id |-> user_id, provider |-> "google", calendar_id |-> calendar_id,
           next_sync_token |-> Null, full_sync_completed |-> FALSE,
           events_imported |-> 0, events_exported |-> 0]}

\* CalendarSyncService.sync_user_calendar(user_id, force_full_sync)
sync_user_calendar ==
    /\ CalCallable
    /\ \E user_id \in CalUsers, force_full_sync \in BOOLEAN, env \in AllowedEnvs :
        /\ Consulted(env, Tables, user_id, now)
        /\ \E run \in {SyncUserCalendar(Tables, user_id, force_full_sync, now, env)} :
            /\ CalStep(Faults(env))
            /\ SetTables(run.db)
            /\ cal_result' =
                  [CalResult("sync", user_id, FALSE, TRUE, user_calendar_tokens,
                             run.token, run.results, run.requests)
                      EXCEPT !.force_full_sync = force_full_sync]

\* CalendarSyncService.connect_google_calendar(user_id, auth_code):
\*   expires_in      the lifetime exchange_code_for_tokens answers with
\*   refresh_token   the refresh token of the answer, Null when it carries none
\*   calendar_id     the id of the primary calendar of get_calendar_list
connect_google_calendar ==
    /\ CalCallable
    /\ \E user_id \in CalUsers :
        \/ \* exchange_code_for_tokens raises
           /\ CalStep(1)
           /\ cal_result' = CalResult("connect", user_id, TRUE, FALSE, {}, NoCheck,
                                      NoResults, <<>>)
           /\ UNCHANGED <<calendar_events, user_calendar_tokens, calendar_sync_state>>
        \/ \E expires_in \in ExpiresIn, refresh_token \in {Null, "rt"} :
              LET stored == StoreTokens(user_calendar_tokens, user_id, FirstToken,
                                        refresh_token, now + expires_in)
              IN  \/ \* get_calendar_list raises: the tokens stay stored
                     /\ CalStep(1)
                     /\ user_calendar_tokens' = stored
                     /\ cal_result' = CalResult("connect", user_id, TRUE, FALSE, {}, NoCheck,
                                                NoResults, <<>>)
                     /\ UNCHANGED <<calendar_events, calendar_sync_state>>
                  \/ \* the user has no calendar: no sync state, no sync
                     /\ CalStep(0)
                     /\ user_calendar_tokens' = stored
                     /\ cal_result' = CalResult("connect", user_id, FALSE, FALSE, {}, NoCheck,
                                                NoResults, <<>>)
                     /\ UNCHANGED <<calendar_events, calendar_sync_state>>
                  \/ \E calendar_id \in {"primary"}, env \in AllowedEnvs :
                        LET db  == [Tables EXCEPT
                                       !.tokens = stored,
                                       !.state = initialize_sync_state(@, user_id,
                                                                       calendar_id)]
                        IN  /\ Consulted(env, db, user_id, now)
                            /\ \E run \in {SyncUserCalendar(db, user_id, FALSE, now, env)} :
                                  /\ CalStep(Faults(env))
                                  /\ SetTables(run.db)
                                  /\ cal_result' = CalResult("connect", user_id, FALSE,
                                                             TRUE, stored, run.token,
                                                             run.results, run.requests)

KeepConnectionUnlessRevoked(db, user_id, revoked) ==
    IF revoked
    THEN [db EXCEPT !.tokens = @ \ TokenRows(@, user_id),
                    !.state = @ \ SyncStateRows(@, user_id)]
    ELSE db

\* DELETE FROM user_calendar_tokens ...; DELETE FROM calendar_sync_state ...:
\* both run whatever revoke_token answered
RemoveConnection(db, user_id, revoked) ==
    [db EXCEPT !.tokens = @ \ TokenRows(@, user_id),
               !.state = @ \ SyncStateRows(@, user_id)]

\* UPDATE calendar_events SET sync_status = 'deleted' WHERE user_id = $1 AND
\* source = 'google'
MarkGoogleEventsDeleted(events, user_id) ==
    {IF r.user_id = user_id /\ r.source = "google"
        THEN [r EXCEPT !.sync_status = "deleted"] ELSE r : r \in events}

\* CalendarSyncService.disconnect_google_calendar(user_id): revoke the stored
\* token (revoke_token reports a failure as False, which is ignored), delete the
\* token and the sync state, mark the Google events deleted.
disconnect_google_calendar ==
    /\ CalCallable
    /\ \E user_id \in CalUsers, revoked \in BOOLEAN :
        LET rows == TokenRows(user_calendar_tokens, user_id)
            revoke == [api |-> "revoke_token",
                       access_token |-> decrypt_token(
                                           (CHOOSE r \in rows : TRUE).access_token_encrypted),
                       calendar_id |-> Null,
                       arg |-> IF revoked THEN "revoked" ELSE "failed"]
        IN  /\ rows = {} => revoked
            /\ FaultsAllowed(IF revoked THEN 0 ELSE 1)
            /\ CalStep(IF revoked THEN 0 ELSE 1)
            /\ SetTables([RemoveConnection(Tables, user_id, revoked) EXCEPT
                             !.events = MarkGoogleEventsDeleted(@, user_id)])
            /\ cal_result' = CalResult("disconnect", user_id, FALSE, FALSE, {}, NoCheck,
                                       NoResults, IF rows = {} THEN <<>> ELSE <<revoke>>)

\* INSERT INTO calendar_events ... 'ccopinai', 'pending' ... RETURNING id
InsertLocalEvent(events, event_id, user_id, event_data) ==
    events \cup
    {[id |-> event_id, user_id |-> user_id, google_event_id |-> Null, limitless_id |-> Null,
      title |-> event_data.title, description |-> event_data.description,
      start_time |-> event_data.start_time, end_time |-> event_data.end_time,
      location |-> event_data.location, attendees |-> event_data.attendees,
      status |-> Null, source |-> "ccopinai", sync_status |-> "pending",
      sync_error |-> Null]}

LeavePending(events, event_id, google_sync_result) ==
    {IF r.id = event_id
        THEN [r EXCEPT !.google_event_id = google_sync_result.google_event_id,
                       !.sync_error = google_sync_result.error]
        ELSE r : r \in events}

\* create_event's UPDATE calendar_events SET sync_status = $2, google_event_id = $3,
\* sync_error = $4 WHERE id = $1
RecordExport(events, event_id, google_sync_result) ==
    {IF r.id = event_id
        THEN [r EXCEPT !.sync_status = IF google_sync_result.success THEN "synced"
                                       ELSE "error",
                       !.google_event_id = google_sync_result.google_event_id,
                       !.sync_error = google_sync_result.error]
        ELSE r : r \in events}

\* CalendarSyncService.create_event(user_id, event_data): insert the row as
\* pending, export it, record the outcome of the export on the row.
create_event ==
    /\ CalCallable
    /\ Cardinality({r \in calendar_events : r.google_event_id \in SeqToSet(ExportIds)})
          < Len(ExportIds)
    /\ \E user_id \in CalUsers, event_data \in NewEventData,
          refresh \in {0} \cup ExpiresIn, created \in BOOLEAN :
        LET env      == TokenEnv(refresh)
            event_id == NewEventId(calendar_events, user_id, "ccopinai", "local")
            db       == [Tables EXCEPT
                            !.events = InsertLocalEvent(@, event_id, user_id, event_data)]
            n        == Faults(env) + (IF created THEN 0 ELSE 1)
        IN  /\ FaultsAllowed(n)
            /\ Consulted(env, db, user_id, now)
            /\ Answered(CalendarAccess(db, user_id, now, env), created, TRUE)
            /\ \E export \in {export_to_google_calendar(db, user_id, event_data, now, env,
                                                        created)} :
                  /\ CalStep(n)
                  /\ SetTables([export.db EXCEPT
                                   !.events = RecordExport(@, event_id, export.result)])
                  /\ cal_result' =
                        [CalResult("create", user_id, FALSE, TRUE, user_calendar_tokens,
                                   export.token, NoResults, export.requests)
                            EXCEPT !.event_id = event_id,
                                   !.google_sync = export.result,
                                   !.steps = <<"insert", "export", "record">>]

\* update_event's first UPDATE: the new data, sync_status = 'pending'
UpdateLocalEvent(events, event_id, user_id, event_data) ==
    {IF r.id = event_id /\ r.user_id = user_id
        THEN [r EXCEPT !.title = event_data.title, !.description = event_data.description,
                       !.start_time = event_data.start_time,
                       !.end_time = event_data.end_time,
                       !.location = event_data.location,
                       !.attendees = event_data.attendees, !.sync_status = "pending"]
        ELSE r : r \in events}

\* update_event's second UPDATE: SET sync_status = $3, sync_error = $4
RecordUpdate(events, event_id, user_id, google_sync_result) ==
    {IF r.id = event_id /\ r.user_id = user_id
        THEN [r EXCEPT !.sync_status = IF google_sync_result.success THEN "synced"
                                       ELSE "error",
                       !.sync_error = google_sync_result.error]
        ELSE r : r \in events}

\* CalendarSyncService.update_event(user_id, event_id, event_data): the remote
\* copy is updated when the row has a google_event_id, whatever its source.
update_event ==
    /\ CalCallable
    /\ \E user_id \in CalUsers, event_id \in {r.id : r \in calendar_events},
          event_data \in ChangedEventData :
        LET found == {r \in calendar_events : r.id = event_id /\ r.user_id = user_id}
            current_event == CHOOSE r \in found : TRUE
            db == [Tables EXCEPT
                      !.events = UpdateLocalEvent(@, event_id, user_id, event_data)]
        IN  IF found = {}
            THEN \* CalendarSyncError("Event not found")
                 /\ CalStep(0)
                 /\ cal_result' = CalResult("update", user_id, TRUE, FALSE, {}, NoCheck,
                                            NoResults, <<>>)
                 /\ UNCHANGED <<calendar_events, user_calendar_tokens, calendar_sync_state>>
            ELSE IF current_event.google_event_id # Null
            THEN \E refresh \in {0} \cup ExpiresIn, updated \in BOOLEAN :
                    LET env == TokenEnv(refresh)
                        n   == Faults(env) + (IF updated THEN 0 ELSE 1)
                    IN  /\ FaultsAllowed(n)
                        /\ Consulted(env, db, user_id, now)
                        /\ Answered(CalendarAccess(db, user_id, now, env), updated, TRUE)
                        /\ \E remote \in {update_google_calendar_event(
                                             db, user_id, current_event.google_event_id,
                                             event_data, now, env, updated)} :
                              /\ CalStep(n)
                              /\ SetTables([remote.db EXCEPT
                                               !.events = RecordUpdate(@, event_id, user_id,
                                                                       remote.result)])
                              /\ cal_result' =
                                    [CalResult("update", user_id, FALSE, TRUE,
                                               user_calendar_tokens, remote.token,
                                               NoResults, remote.requests)
                                        EXCEPT !.event_id = event_id,
                                               !.google_sync = remote.result,
                                               !.steps = <<"update", "remote_update",
                                                           "record">>]
            ELSE /\ CalStep(0)
                 /\ calendar_events' = RecordUpdate(db.events, event_id, user_id, NoSync)
                 /\ cal_result' =
                       [CalResult("update", user_id, FALSE, FALSE, {}, NoCheck,
                                  NoResults, <<>>)
                           EXCEPT !.event_id = event_id, !.steps = <<"update", "record">>]
                 /\ UNCHANGED <<user_calendar_tokens, calendar_sync_state>>

DeleteRow(events, event_id, user_id) ==
    {r \in events : ~(r.id = event_id /\ r.user_id = user_id)}

\* UPDATE calendar_events SET sync_status = 'deleted' WHERE id = $1 AND user_id = $2
MarkDeleted(events, event_id, user_id) ==
    {IF r.id = event_id /\ r.user_id = user_id
        THEN [r EXCEPT !.sync_status = "deleted"] ELSE r : r \in events}

DeleteRemoteWhenExported(event) == event.google_event_id # Null

\* delete_event's test: the provider's copy is deleted only for an exported
\* event of this application
DeletesRemoteCopy(event) == event.google_event_id # Null /\ event.source = "ccopinai"

\* CalendarSyncService.delete_event(user_id, event_id): the remote delete, if
\* any, then the soft delete of the row, whatever the remote delete answered.
delete_event ==
    /\ CalCallable
    /\ \E user_id \in CalUsers, event_id \in {r.id : r \in calendar_events} :
        LET found == {r \in calendar_events : r.id = event_id /\ r.user_id = user_id}
            event == CHOOSE r \in found : TRUE
        IN  IF found = {}
            THEN \* CalendarSyncError("Event not found")
                 /\ CalStep(0)
                 /\ cal_result' = CalResult("delete", user_id, TRUE, FALSE, {}, NoCheck,
                                            NoResults, <<>>)
                 /\ UNCHANGED <<calendar_events, user_calendar_tokens, calendar_sync_state>>
            ELSE IF DeletesRemoteCopy(event)
            THEN \E refresh \in {0} \cup ExpiresIn, status \in DeleteStatuses :
                    LET env == TokenEnv(refresh)
                        n   == Faults(env) + (IF status = ServerError THEN 1 ELSE 0)
                    IN  /\ FaultsAllowed(n)
                        /\ Consulted(env, Tables, user_id, now)
                        /\ Answered(CalendarAccess(Tables, user_id, now, env), status,
                                    NoContent)
                        /\ \E remote \in {delete_google_calendar_event(
                                             Tables, user_id, event.google_event_id, now,
                                             env, status)} :
                              /\ CalStep(n)
                              /\ SetTables([remote.db EXCEPT
                                               !.events = MarkDeleted(@, event_id, user_id)])
                              /\ cal_result' =
                                    [CalResult("delete", user_id, FALSE, TRUE,
                                               user_calendar_tokens, remote.token,
                                               NoResults, remote.requests)
                                        EXCEPT !.event_id = event_id,
                                               !.status_before = event.sync_status,
                                               !.google_sync = remote.result,
                                               !.steps = <<"remote_delete", "mark_deleted">>]
            ELSE /\ CalStep(0)
                 /\ calendar_events' = MarkDeleted(calendar_events, event_id, user_id)
                 /\ cal_result' =
                       [CalResult("delete", user_id, FALSE, FALSE, {}, NoCheck,
                                  NoResults, <<>>)
                           EXCEPT !.event_id = event_id,
                                  !.status_before = event.sync_status,
                                  !.steps = <<"mark_deleted">>]
                 /\ UNCHANGED <<user_calendar_tokens, calendar_sync_state>>

\* time passes until the next instant
Tick ==
    /\ \E t \in Instants : t > now /\ now' = t
    /\ UNCHANGED <<calendar_events, user_calendar_tokens, calendar_sync_state, cal_result,
                   cal_calls, cal_faults>>
    /\ UNCHANGED lifelogVars
    /\ UNCHANGED <<workers, unique_limitless_id>>

\* ------------------------------------- lifelog: two runs at the same time

\* The lifelogs each of two overlapping runs of one user saves: those of day 1,
\* in the order of its pages.
RaceItems == Pages(1)[1] \o Pages(1)[2]

\* two runs of "u1", each about to save its first lifelog
WorkersInit ==
    [w \in {1, 2} |-> [user_id |-> "u1", todo |-> RaceItems, existing |-> {}, pc |-> "select"]]

\* The insert breaks the constraint transcripts_limitless_id_unique, UNIQUE
\* (limitless_id), when the table was migrated with it.
UniqueViolation(tr, lifelog) ==
    unique_limitless_id /\ \E r \in tr : r.limitless_id = lifelog

\* The first round trip of save_lifelog_as_transcript in run w: the select of
\* the rows of (user, lifelog); the run is suspended until its answer.
select_existing(w) ==
    /\ workers[w].pc = "select"
    /\ workers' = [workers EXCEPT
                      ![w].existing = ExistingTranscripts(transcripts, Head(workers[w].todo),
                                                          workers[w].user_id),
                      ![w].pc = "write"]
    /\ UNCHANGED <<pc, call, current_date, sync_state, loop, requests, date_writes, runs,
                   saves, failed_at, completed, crashes, transcripts, db_sync_state,
                   sync_errors, faults, unique_limitless_id>>
    /\ UNCHANGED calendarVars

\* The second round trip in run w: the update of existing.data[0] when the
\* select found a row, the insert otherwise. An insert that the datastore
\* rejects raises, _process_lifelog_batch logs it and goes on to the next
\* lifelog of the run.
write_transcript(w) ==
    LET me      == workers[w]
        lifelog == Head(me.todo)
        first   == CHOOSE r \in me.existing : \A q \in me.existing : r.id[3] <= q.id[3]
        raises  == me.existing = {} /\ UniqueViolation(transcripts, lifelog)
    IN  /\ me.pc = "write"
        /\ transcripts' =
              IF me.existing # {}
              THEN update_existing_transcript(transcripts, first.id, lifelog, me.user_id)
              ELSE IF raises THEN transcripts
              ELSE create_new_transcript(transcripts, lifelog, me.user_id)
        /\ saves' = IF raises THEN saves
                    ELSE [saves EXCEPT ![<<me.user_id, lifelog>>] = @ + 1]
        /\ workers' = [workers EXCEPT
                          ![w].todo = Tail(me.todo),
                          ![w].existing = {},
                          ![w].pc = IF Tail(me.todo) = <<>> THEN "done" ELSE "select"]
        /\ UNCHANGED <<pc, call, current_date, sync_state, loop, requests, date_writes, runs,
                       failed_at, completed, crashes, db_sync_state, sync_errors, faults,
                       unique_limitless_id>>
        /\ UNCHANGED calendarVars

\* ----------------------------------------------------------- specification

\* the rows of another user that the database holds from earlier runs
InitialEvents ==
    import_google_event(
        import_limitless_event({}, "u2", LimitlessResponses[1].data[1]),
        "u2", GoogleResponses[1].events[1])

LifelogInit ==
    /\ pc = "idle"
    /\ call = [op |-> "none", user_id |-> "u1", start_date |-> 1, end_date |-> 1]
    /\ current_date = 1
    /\ sync_state = NewSyncState(1)
    /\ loop = FreshLoop
    /\ requests = <<>>
    /\ date_writes = 0
    /\ runs = 0
    /\ saves = [k \in Users \X LifelogIds |-> IF k = <<"u2", "a">> THEN 1 ELSE 0]
    /\ failed_at = "none"
    /\ completed = {}
    /\ crashes = 0
    /\ transcripts = create_new_transcript({}, "a", "u2")
    /\ db_sync_state = {}
    /\ sync_errors = <<>>
    /\ faults = 0

\* the service is constructed over tables db, at minute 0
CalendarInit(db) ==
    /\ now = 0
    /\ calendar_events = db.events
    /\ user_calendar_tokens = db.tokens
    /\ calendar_sync_state = db.state
    /\ cal_result = CalResult("none", "u1", FALSE, FALSE, {}, NoCheck, NoResults, <<>>)
    /\ cal_calls = 0
    /\ cal_faults = 0

Init ==
    /\ LifelogInit
    /\ CalendarInit([events |-> InitialEvents, tokens |-> {}, state |-> {}])
    /\ workers = WorkersInit
    /\ unique_limitless_id = FALSE

\* The tables of a user who connected the calendar at minute 0 with a token of
\* 6 minutes and a refresh token, and then created one event, which was
\* exported: what connect_google_calendar and create_event leave behind.
ConnectedTables ==
    LET user_id  == "u1"
        env      == [DefaultEnv EXCEPT !.google = 1, !.limitless = 1]
        db0      == [events |-> InitialEvents,
                     tokens |-> StoreTokens({}, user_id, FirstToken, "rt", 6),
                     state |-> initialize_sync_state({}, user_id, "primary")]
        db1      == SyncUserCalendar(db0, user_id, FALSE, 0, env).db
        data     == CHOOSE event_data \in NewEventData : TRUE
        event_id == NewEventId(db1.events, user_id, "ccopinai", "local")
        db2      == [db1 EXCEPT !.events = InsertLocalEvent(@, event_id, user_id, data)]
        export   == export_to_google_calendar(db2, user_id, data, 0, env, TRUE)
    IN  [export.db EXCEPT !.events = RecordExport(@, event_id, export.result)]

EventInit ==
    /\ LifelogInit
    /\ CalendarInit(ConnectedTables)
    /\ workers = WorkersInit
    /\ unique_limitless_id = FALSE

Next ==
    \/ sync_from_date
    \/ incremental_sync
    \/ sync_date_with_cursor
    \/ date_completed
    \/ date_failed

Spec == Init /\ [][Next]_vars

\* the lifelog sync runs of a process that may stop at any point of a run
CrashNext ==
    \/ sync_from_date
    \/ incremental_sync
    \/ sync_date_with_cursor
    \/ date_completed
    \/ date_failed
    \/ crash

CrashSpec == Init /\ [][CrashNext]_vars

\* the calendar operations of CalendarSyncService, and the clock
CalendarNext ==
    \/ connect_google_calendar
    \/ sync_user_calendar
    \/ create_event
    \/ update_event
    \/ delete_event
    \/ disconnect_google_calendar
    \/ Tick

CalendarSpec == Init /\ [][CalendarNext]_vars

\* the same operations over the tables of a connected user
EventSpec == EventInit /\ [][CalendarNext]_vars

\* Two sync runs of the same user that overlap, their round trips to the
\* datastore interleaved in any order, over a table with or without the
\* unique constraint of the migration.
RaceInit ==
    /\ LifelogInit
    /\ CalendarInit([events |-> InitialEvents, tokens |-> {}, state |-> {}])
    /\ workers = WorkersInit
    /\ unique_limitless_id \in BOOLEAN

RaceNext ==
    \/ \E w \in DOMAIN workers : select_existing(w)
    \/ \E w \in DOMAIN workers : write_transcript(w)

RaceSpec == RaceInit /\ [][RaceNext]_vars

\* ------------------------------------------------ lifelog: derived histories

\* the dates start .. end in ascending order (empty when start > end)
DateRange(start_date, end_date) ==
    [i \in 1 .. (end_date - start_date + 1) |-> start_date + i - 1]

IsPrefix(p, q) == Len(p) <= Len(q) /\ \A i \in 1 .. Len(p) : p[i] = q[i]

\* the requests of this run that open a date's cursor loop (no cursor yet)
FirstRequests == SelectSeq(requests, LAMBDA r : r.cursor = NoCursor)

\* the dates this run has attempted, in the order of their first request
AttemptedDates == [i \in 1 .. Len(FirstRequests) |-> FirstRequests[i].date]

\* the requests of this run for one date, in order
RequestsFor(d) == SelectSeq(requests, LAMBDA r : r.date = d)

\* pages of the date in progress that the cursor loop has not requested yet
PagesLeft == Len(Pages(current_date)) - Len(RequestsFor(current_date))

\* the sum of the sizes of the pages requested for a date
FetchedSize(d) ==
    LET reqs == RequestsFor(d)
    IN  SumOver(1 .. Len(reqs),
                [k \in 1 .. Len(reqs) |->
                    Len(list_lifelogs_by_date(d, reqs[k].cursor).lifelogs)])

RunStarted == call.op # "none"

\* ------------------------------------------------------- lifelog: claims

\* C1: n successful saves of the same lifelog for the same user (two sequential
\* sync_from_date runs of its date give n = 2) leave exactly one transcript row
\* for (user, externalId): the first save inserted it and every later save
\* updated that row instead of inserting another.
C1_OneTranscriptPerLifelog ==
    \A user_id \in Users, lifelog \in LifelogIds :
        LET rows == ExistingTranscripts(transcripts, lifelog, user_id)
            n    == saves[<<user_id, lifelog>>]
        IN  /\ Cardinality(rows) <= 1
            /\ n > 0 => /\ Cardinality(rows) = 1
                        /\ \A r \in rows : r.updates = n - 1 /\ r.status = "completed"

\* two completed sync_from_date runs over day 1 saved lifelog "a" twice
C1_Witness ==
    /\ runs = 2
    /\ pc = "returned"
    /\ call.op = "sync_from_date"
    /\ saves[<<"u1", "a">>] = 2
    /\ \E r \in transcripts : r.user_id = "u1" /\ r.limitless_id = "a" /\ r.updates = 1

C3_RejectsInvertedRange ==
    /\ []((RunStarted /\ call.start_date > call.end_date)
            => (pc = "raised" /\ requests = <<>>))
    /\ [][(runs' # runs /\ call'.start_date > call'.end_date)
            => UNCHANGED <<transcripts, db_sync_state, sync_errors>>]_vars

\* a second call, with an inverted range, rejected over a populated store
C3_Witness ==
    /\ runs = 2
    /\ call.op = "sync_from_date"
    /\ call.start_date > call.end_date
    /\ pc = "raised"
    /\ db_sync_state # {}
    /\ \E r \in transcripts : r.user_id = "u1"

\* C4: in sync_from_date over [start, end] every date of the range is
\* attempted exactly once, ascending and inclusive of both ends, whatever
\* failed on earlier dates: a run that has ended attempted the whole range.
C4_EveryDateAttempted ==
    (RunStarted /\ call.start_date <= call.end_date)
        => /\ IsPrefix(AttemptedDates, DateRange(call.start_date, call.end_date))
           /\ (pc \in {"returned", "raised"}
                  => AttemptedDates = DateRange(call.start_date, call.end_date))

\* C5: the cursor loop of a date requests the pages of the date's finite chain
\* one after the other, the first with no cursor and each next one with the
\* next_cursor the previous page returned, no page twice; every iteration
\* consumes one of the remaining pages, and the loop returns exactly when
\* the last page has been requested.
C5_CursorChain ==
    /\ \A d \in {requests[i].date : i \in 1 .. Len(requests)} :
          LET reqs == RequestsFor(d)
          IN  /\ Len(reqs) <= Len(Pages(d))
              /\ \A k \in 1 .. Len(reqs) :
                    reqs[k].cursor =
                        IF k = 1 THEN NoCursor
                        ELSE list_lifelogs_by_date(d, reqs[k - 1].cursor).next_cursor
    /\ (pc = "cursor_loop" => PagesLeft > 0)
    /\ (pc = "date_ok" => PagesLeft = 0)

C5_CursorLoopTerminates ==
    /\ []C5_CursorChain
    /\ [][pc = "cursor_loop" => PagesLeft' = PagesLeft - 1]_vars

\* the two-page chain of day 1 walked to its end
C5_Witness ==
    /\ pc = "date_ok"
    /\ current_date = 1
    /\ requests = <<[date |-> 1, cursor |-> NoCursor], [date |-> 1, cursor |-> 1]>>

\* C6 as stated: when the cursor loop of a date finishes, the amount it adds to
\* total_synced equals the sum of the sizes of all pages fetched for the date.
C6_AddsSumOfPageSizes ==
    pc = "date_ok" => loop.total_synced = FetchedSize(current_date)

\* C6 amended: when the cursor loop of a date finishes, the amount it adds to
\* total_synced equals the number of lifelogs of the fetched pages whose save
\* succeeded (one transcript row written each): at most the sum of the page
\* sizes, and equal to it when nothing failed.
C6_AddsSavedCount ==
    /\ [](pc = "date_ok"
            => /\ loop.total_synced = date_writes
               /\ date_writes <= FetchedSize(current_date)
               /\ (faults = 0 => date_writes = FetchedSize(current_date)))
    /\ [][pc = "date_ok"
            => sync_state'.total_synced = sync_state.total_synced + date_writes]_vars

\* day 1 finished with its three lifelogs fetched and only two of them saved
C6_Witness ==
    /\ pc = "date_ok"
    /\ current_date = 1
    /\ FetchedSize(1) = 3
    /\ loop.total_synced = 2
    /\ date_writes = 2

\* ----------------------------------------------- calendar: derived histories

\* the last calendar operation ran sync_user_calendar to its end
SyncReturned == cal_result.op \in {"sync", "connect"} /\ cal_result.checked

\* the token row _get_valid_access_token read in the last operation
StoredToken == CHOOSE r \in TokenRows(cal_result.token_before, cal_result.user_id) : TRUE

\* the conflict detector, run for the owner of e1, reports e1 with e2
Flagged(e1, e2) ==
    \E c \in detect_conflicts(calendar_events, e1.user_id) :
        c.events \in {<<e1.id, e2.id>>, <<e2.id, e1.id>>}

\* the pairs of events of one user
EventPairs ==
    {p \in calendar_events \X calendar_events :
        p[1].user_id = p[2].user_id /\ p[1].id # p[2].id}

\* the pairs of events the detector reports for a user, order forgotten
FlaggedPairs(user_id) ==
    {{p[1].id, p[2].id} : p \in {q \in EventPairs : q[1].user_id = user_id
                                                      /\ Flagged(q[1], q[2])}}

\* ------------------------------------------------------ calendar: claims

\* C7 (as stated): the conflict detector flags a pair of events of one user if
\* and only if their sources differ and their intervals strictly overlap
\* (e1.start < e2.end and e1.end > e2.start).
C7_FlagsIffSourcesDifferAndOverlap ==
    \A p \in EventPairs :
        Flagged(p[1], p[2]) <=> /\ p[1].source # p[2].source
                                /\ p[1].start_time < p[2].end_time
                                /\ p[1].end_time > p[2].start_time

\* C7 (amended): the conflict detector flags a pair of events of one user if
\* and only if neither event is marked deleted, their sources differ and their
\* intervals strictly overlap; same-source overlaps and intervals that only
\* touch are not flagged.
C7_FlagsLiveEventsIffSourcesDifferAndOverlap ==
    \A p \in EventPairs :
        Flagged(p[1], p[2]) <=> /\ p[1].sync_status # "deleted"
                                /\ p[2].sync_status # "deleted"
                                /\ p[1].source # p[2].source
                                /\ p[1].start_time < p[2].end_time
                                /\ p[1].end_time > p[2].start_time

\* C7 witness: a sync has run, and the table holds a flagged pair, an
\* overlapping pair of one source, a pair of two sources that only touches and
\* an overlapping pair of two sources with a deleted event.
C7_Witness ==
    /\ \E r \in calendar_events : r.user_id = "u1" /\ r.source = "limitless"
    /\ \E p \in EventPairs : Flagged(p[1], p[2])
    /\ \E p \in EventPairs : /\ p[1].source = p[2].source
                             /\ p[1].start_time < p[2].end_time
                             /\ p[1].end_time > p[2].start_time
                             /\ p[1].sync_status # "deleted" /\ p[2].sync_status # "deleted"
    /\ \E p \in EventPairs : /\ p[1].source # p[2].source
                             /\ p[1].end_time = p[2].start_time
                             /\ p[1].sync_status # "deleted" /\ p[2].sync_status # "deleted"
    /\ \E p \in EventPairs : /\ p[1].source # p[2].source
                             /\ p[1].start_time < p[2].end_time
                             /\ p[1].end_time > p[2].start_time
                             /\ p[1].sync_status = "deleted"

\* C8: each flagged pair of events yields exactly one conflict: the number of
\* conflicts a sync reports is the number of flagged pairs (one conflict for
\* three imported calendar events of which one overlaps the lifelog event).
C8_OneConflictPerFlaggedPair ==
    SyncReturned =>
        Cardinality(cal_result.results.conflicts)
            = Cardinality(FlaggedPairs(cal_result.user_id))

\* C9: when a refresh token is stored, _get_valid_access_token refreshes the
\* access token exactly when now >= expires_at - 5 minutes; a token inside
\* the window is used only refreshed, a token outside it is returned as
\* stored without a refresh call.
C9_RefreshesExactlyInsideWindow ==
    (cal_result.checked /\ cal_result.token.read
        /\ StoredToken.refresh_token_encrypted # NoCipher)
    => LET due == cal_result.at >= StoredToken.expires_at - 5
           old == decrypt_token(StoredToken.access_token_encrypted)
       IN  /\ cal_result.token.refresh # "none" <=> due
           /\ (due /\ cal_result.token.access_token # NoToken)
                => /\ cal_result.token.refresh = "ok"
                   /\ cal_result.token.access_token # old
                   /\ \A i \in 1 .. Len(cal_result.requests) :
                         cal_result.requests[i].access_token # old
           /\ ~due => /\ cal_result.token.access_token = old
                      /\ user_calendar_tokens = cal_result.token_before

\* C9 witness: a token with a refresh token is checked exactly 5 minutes
\* before it expires, refreshed, and the new token used for a request.
C9_Witness ==
    /\ cal_result.checked /\ cal_result.token.read
    /\ StoredToken.refresh_token_encrypted # NoCipher
    /\ cal_result.at = StoredToken.expires_at - 5
    /\ cal_result.token.refresh = "ok"
    /\ cal_result.requests # <<>>

\* C10: _get_valid_access_token returns "no valid token" and does not raise
\* when the access token is expired and no refresh token is stored, and when
\* the refresh call fails; in both cases the stored token record is unchanged.
C10_NoValidTokenLeavesRecord ==
    (cal_result.checked /\ cal_result.token.read)
    => LET expired == cal_result.at >= StoredToken.expires_at
           no_refresh_token == StoredToken.refresh_token_encrypted = NoCipher
       IN  ((expired /\ no_refresh_token) \/ cal_result.token.refresh = "failed")
             => /\ cal_result.token.access_token = NoToken
                /\ ~cal_result.raised
                /\ cal_result.requests = <<>>
                /\ cal_result.token.tokens = cal_result.token_before
                /\ user_calendar_tokens = cal_result.token_before

\* C10 witness: an expired token without a refresh token has been checked.
C10_Witness ==
    /\ cal_result.checked /\ cal_result.token.read
    /\ cal_result.at >= StoredToken.expires_at
    /\ StoredToken.refresh_token_encrypted = NoCipher
    /\ cal_result.token.access_token = NoToken

\* the other case of C10 is reached too: a refresh call has failed
C10_RefreshFailureReached ==
    /\ cal_result.checked /\ cal_result.token.read
    /\ cal_result.token.refresh = "failed"

\* ------------------------------------------------ calendar: event rows

\* the provider's id of a row: the Limitless id of a Limitless row, the Google
\* id of any other
ExternalId(r) == IF r.source = "limitless" THEN r.limitless_id ELSE r.google_event_id

\* the rows of a user
RowsOf(user_id) == {r \in calendar_events : r.user_id = user_id}

\* C11: no two event rows share (user, source, externalId) with a non-null
\* externalId; an import of an event whose (user, externalId) already exists
\* updates that row and inserts nothing, so no two rows of a user share a Google
\* id or a Limitless id either.
C11_UniqueExternalId ==
    \A r1 \in calendar_events : \A r2 \in RowsOf(r1.user_id) :
        /\ (r1.source = r2.source /\ ExternalId(r1) # Null
               /\ ExternalId(r1) = ExternalId(r2)) => r1 = r2
        /\ (r1.google_event_id # Null /\ r1.google_event_id = r2.google_event_id) => r1 = r2
        /\ (r1.limitless_id # Null /\ r1.limitless_id = r2.limitless_id) => r1 = r2

\* C11 witness: a sync has imported again the three Google events and the
\* exported event that the user already had, and the user still has five rows.
C11_Witness ==
    /\ cal_result.op = "sync"
    /\ cal_result.results.google.imported = 4
    /\ cal_result.results.limitless.imported = 1
    /\ Cardinality(RowsOf("u1")) = 5

\* C12: no operation removes an event row: every row of a state is a row, with
\* the same id, owner and source, of the next state.
C12_NoRowRemoved ==
    [][\A r \in calendar_events :
          \E q \in calendar_events' :
              q.id = r.id /\ q.user_id = r.user_id /\ q.source = r.source]_vars

\* C12 witness: a delete and a disconnect have run, and the user has both a
\* locally authored row and Google rows marked deleted.
C12_Witness ==
    /\ cal_result.op = "disconnect"
    /\ \E r \in RowsOf("u1") : r.source = "ccopinai" /\ r.sync_status = "deleted"
    /\ \E r \in RowsOf("u1") : r.source = "google" /\ r.sync_status = "deleted"
    /\ Cardinality(RowsOf("u1")) = 5

\* ------------------------------------------------ calendar: import pass

\* the sync state row of a user that _sync_google_calendar reads, if any
SyncStateOf(state, user_id) == CHOOSE r \in SyncStateRows(state, user_id) : TRUE

\* the next_sync_token stored for a user, Null without a sync state
StoredSyncToken(state, user_id) ==
    IF SyncStateRows(state, user_id) = {} THEN Null
    ELSE SyncStateOf(state, user_id).next_sync_token

\* the step is a calendar operation whose import pass requested the events
ImportRequested ==
    /\ cal_calls' # cal_calls
    /\ cal_result'.op \in {"sync", "connect"}
    /\ cal_result'.requests # <<>>

\* C13: the import pass requests an incremental pull with the stored token
\* exactly when a nextSyncToken is stored and forceFullSync is false; otherwise
\* it requests a full pull of [now - 30 days, now + 90 days] without sync token.
C13_IncrementalIffTokenAndNotForced ==
    [][ImportRequested =>
          LET request == cal_result'.requests[1]
              stored  == StoredSyncToken(calendar_sync_state, cal_result'.user_id)
          IN  /\ Len(cal_result'.requests) = 1
              /\ request.api = "get_events"
              /\ IF stored # Null /\ ~cal_result'.force_full_sync
                 THEN request.params = [syncToken |-> <<stored>>, timeMin |-> <<>>,
                                        timeMax |-> <<>>]
                 ELSE request.params = [syncToken |-> <<>>,
                                        timeMin |-> <<now - 30 * 1440>>,
                                        timeMax |-> <<now + 90 * 1440>>]]_vars

\* C13 witness: a forced sync of a user with a stored token has made a full
\* pull.
C13_Witness ==
    /\ cal_result.op = "sync"
    /\ cal_result.force_full_sync
    /\ cal_result.requests # <<>>
    /\ cal_result.requests[1].params.syncToken = <<>>
    /\ cal_result.results.google.errors = <<>>

\* the other case of C13 is reached too: an incremental pull with a token
C13_IncrementalPullReached ==
    /\ cal_result.op = "sync"
    /\ ~cal_result.force_full_sync
    /\ cal_result.requests # <<>>
    /\ cal_result.requests[1].params.syncToken = <<"s1">>

\* the last operation ran an import pass that succeeded: the events were
\* requested and no error was reported
ImportSucceeded ==
    /\ SyncReturned
    /\ cal_result.requests # <<>>
    /\ cal_result.results.google.errors = <<>>

C14_NextPullReached ==
    /\ cal_result.op = "sync"
    /\ cal_result.requests # <<>>
    /\ cal_result.requests[1].params.syncToken = <<"s2">>

\* the events_imported counter stored for a user, 0 without a sync state
EventsImported(state, user_id) ==
    IF SyncStateRows(state, user_id) = {} THEN 0
    ELSE SyncStateOf(state, user_id).events_imported

\* C15 (as stated): after a sync_user_calendar run whose calendar import
\* succeeds and imports n events, the stored eventsImported counter is exactly n
\* larger than before the run.
C15_CounterGrowsByImported ==
    [][(ImportRequested /\ cal_result'.results.google.errors = <<>>)
       => EventsImported(calendar_sync_state', cal_result'.user_id)
             = EventsImported(calendar_sync_state, cal_result'.user_id)
               + cal_result'.results.google.imported]_vars

\* ------------------------------------------------ calendar: export and delete

\* the rows the last operation named
NamedRows == {r \in calendar_events : r.id = cal_result.event_id}

\* the row the last operation named
NamedRow == CHOOSE r \in NamedRows : TRUE

\* the last operation sent a request that the provider did not refuse
Accepted ==
    /\ cal_result.requests # <<>>
    /\ cal_result.requests[1].answer # "GoogleCalendarError"

C16_ExportedReached ==
    /\ cal_result.op = "create"
    /\ Accepted
    /\ NamedRow.sync_status = "synced"

C16_NoTokenReached ==
    /\ cal_result.op = "create"
    /\ NamedRow.sync_error = "No valid access token"

\* C17 (as stated): a locally authored event that is pending or in error is
\* exported again by the next sync_user_calendar call: after a sync call whose
\* requests the provider accepts, that event is synced.
C17_SyncRetriesExport ==
    [][(/\ ImportRequested
        /\ cal_result'.op = "sync"
        /\ cal_result'.results.google.errors = <<>>)
       => \A r \in RowsOf(cal_result'.user_id) :
             (r.source = "ccopinai" /\ r.sync_status \in {"pending", "error"})
             => \E q \in calendar_events' : q.id = r.id /\ q.sync_status = "synced"]_vars

\* C18: delete_event sends a remote delete, of the row's Google id and before
\* the row is marked, only for a locally authored row that was exported;
\* for an imported row it sends nothing; in both cases the row ends deleted.
C18_RemoteDeleteOnlyForExported ==
    (cal_result.op = "delete" /\ ~cal_result.raised)
    => LET exported == NamedRow.source = "ccopinai" /\ NamedRow.google_event_id # Null
       IN  /\ Cardinality(NamedRows) = 1
           /\ NamedRow.sync_status = "deleted"
           /\ cal_result.requests # <<>>
                => /\ exported
                   /\ Len(cal_result.requests) = 1
                   /\ cal_result.requests[1].api = "delete_event"
                   /\ cal_result.requests[1].arg = NamedRow.google_event_id
                   /\ cal_result.steps = <<"remote_delete", "mark_deleted">>
           /\ ~exported
                => /\ cal_result.requests = <<>>
                   /\ ~cal_result.checked
                   /\ cal_result.steps = <<"mark_deleted">>
           /\ (exported /\ cal_result.token.access_token # NoToken
                 /\ SyncStateRows(calendar_sync_state, cal_result.user_id) # {})
                => cal_result.requests # <<>>

\* C18 witness: an exported event of this application has been deleted with a
\* remote delete.
C18_Witness ==
    /\ cal_result.op = "delete"
    /\ cal_result.requests # <<>>
    /\ NamedRow.source = "ccopinai"
    /\ NamedRow.sync_status = "deleted"

\* the other case of C18 is reached too: an imported event has been deleted
C18_ImportedDeletedReached ==
    /\ cal_result.op = "delete"
    /\ ~cal_result.raised
    /\ NamedRow.source = "google"
    /\ NamedRow.google_event_id # Null
    /\ NamedRow.sync_status = "deleted"

\* the last operation deleted an event and the provider answered 410
AnsweredGone ==
    /\ cal_result.op = "delete"
    /\ cal_result.requests # <<>>
    /\ cal_result.requests[1].answer = 410

\* C19: a remote delete answered 410 is a success: the delete completes with a
\* successful provider result and the row marked deleted; repeated with the
\* same answer, it gives the same result and leaves the tables as they are.
C19_GoneIsSuccess ==
    /\ [](AnsweredGone => /\ ~cal_result.raised
                          /\ cal_result.google_sync = [success |-> TRUE,
                                                        google_event_id |-> Null,
                                                        error |-> Null]
                          /\ NamedRow.sync_status = "deleted")
    /\ [][(/\ AnsweredGone
            /\ cal_calls' # cal_calls
            /\ AnsweredGone'
            /\ cal_result'.event_id = cal_result.event_id
            /\ cal_result'.token.refresh = "none")
           => /\ cal_result'.google_sync = cal_result.google_sync
              /\ calendar_events' = calendar_events
              /\ user_calendar_tokens' = user_calendar_tokens
              /\ calendar_sync_state' = calendar_sync_state]_vars

\* C19 witness: an event whose row was already deleted has been deleted again,
\* and the provider answered 410.
C19_Witness ==
    /\ AnsweredGone
    /\ cal_result.status_before = "deleted"
    /\ cal_result.google_sync.success
    /\ NamedRow.sync_status = "deleted"

\* C20: disconnect_google_calendar returns without raising and leaves no token
\* record and no sync state of the user, also when the revoke failed; a sync
\* that follows sends no calendar request and no refresh.
C20_DisconnectRemovesTokenAndState ==
    /\ [](cal_result.op = "disconnect"
            => /\ ~cal_result.raised
               /\ TokenRows(user_calendar_tokens, cal_result.user_id) = {}
               /\ SyncStateRows(calendar_sync_state, cal_result.user_id) = {})
    /\ [][(/\ cal_result.op = "disconnect"
            /\ cal_calls' # cal_calls
            /\ cal_result'.op = "sync"
            /\ cal_result'.user_id = cal_result.user_id)
           => /\ cal_result'.requests = <<>>
              /\ cal_result'.token.refresh = "none"
              /\ cal_result'.token.access_token = NoToken]_vars

\* C20 witness: a disconnect whose revoke failed has returned.
C20_Witness ==
    /\ cal_result.op = "disconnect"
    /\ cal_result.requests # <<>>
    /\ cal_result.requests[1].api = "revoke_token"
    /\ cal_result.requests[1].arg = "failed"

\* the second half of C20 is reached too: a sync after a disconnect
C20_SyncAfterDisconnectReached ==
    /\ cal_result.op = "sync"
    /\ cal_calls = 2
    /\ ~cal_result.token.read
    /\ \E r \in RowsOf("u1") : r.source = "google" /\ r.sync_status = "deleted"

\* ------------------------------------- lifelog: errors and persisted state

\* the exception of the date in error came out of the cursor loop
CursorLoopFailed == failed_at \in {"list_lifelogs_by_date", "batch_processed"}

\* every page of the date was fetched and every lifelog of them saved
AllFetchedAndSaved ==
    PagesLeft = 0 /\ date_writes = FetchedSize(current_date)

\* the sync_errors row that names a date of the run
SyncErrorRow(date) ==
    [user_id |-> call.user_id, service_name |-> "limitless", date |-> date]

\* the persisted sync state rows of the user of the run
PersistedState(tbl) == get_sync_state(tbl, call.user_id, "limitless")

\* C21 (as stated): every date whose cursor loop fails produces exactly one entry
\* in the errors of the run and one appended SyncError record naming that date,
\* and a date whose items were all fetched and saved produces none.
C21_OneErrorPerFailedDate ==
    [][pc = "date_err" =>
          /\ CursorLoopFailed
                => /\ sync_state'.errors = Append(sync_state.errors, current_date)
                   /\ sync_errors' = Append(sync_errors, SyncErrorRow(current_date))
          /\ (~CursorLoopFailed /\ AllFetchedAndSaved)
                => /\ sync_state'.errors = sync_state.errors
                   /\ sync_errors' = sync_errors]_vars

\* C22 (as stated): after each date of a run completes, whether it succeeded or
\* failed, the persisted SyncState has that date as lastSyncDate, together with
\* lastCursor and the running totalSynced of the run.
C22_PersistsAfterEachDate ==
    [][(pc \in {"date_ok", "date_err"} /\ current_date' = current_date + 1)
       => \E r \in PersistedState(db_sync_state') :
             /\ r.last_sync_date = current_date
             /\ r.last_cursor = sync_state'.last_cursor
             /\ r.total_synced = sync_state'.total_synced]_vars

C23_CrashMidDateReached ==
    /\ pc = "crashed"
    /\ current_date = 1
    /\ loop.cursor # NoCursor
    /\ \E r \in db_sync_state : r.last_sync_date = 1 /\ r.last_cursor = NoCursor

\* C24 (as stated): the persisted totalSynced of a (user, provider) never
\* decreases over any sequence of sync_from_date and incremental_sync runs.
C24_TotalSyncedNeverDecreases ==
    [][\A r \in db_sync_state :
          \A q \in get_sync_state(db_sync_state', r.user_id, r.service_name) :
              q.total_synced >= r.total_synced]_vars

\* C25 (as stated): a progress callback that raises at a batch_processed,
\* date_completed or error notification does not affect the sync outcome: the
\* run goes on as it does when the message is delivered, to the next page, the
\* end of the date or the next date.
C25_DeliveryFailureKeepsOutcome ==
    [][/\ (pc = "cursor_loop" /\ failed_at' = "batch_processed")
             => pc' = IF loop'.has_more THEN "cursor_loop" ELSE "date_ok"
       /\ (pc = "date_ok" /\ failed_at' = "date_completed")
             => /\ current_date' = current_date + 1
                /\ sync_state'.errors = sync_state.errors
       /\ pc = "date_err"
             => /\ current_date' = current_date + 1
                /\ pc' # "raised"]_vars

\* ------------------------------------------- calendar: sync run and tokens

\* the error the import pass of the last sync reported, if any
ImportError == cal_result.results.google.errors

\* C26: a failure of the calendar import (no token, no sync state, provider
\* error, store error) is captured as the one error of the import's result and
\* does not abort sync_user_calendar: the call does not raise, the lifelog
\* import has run (its result carries its meeting or its own error) and the
\* conflicts returned are those the detector finds in the tables.
C26_ImportFailureDoesNotAbort ==
    (SyncReturned /\ ImportError # <<>>)
    => /\ ~cal_result.raised
       /\ Len(ImportError) = 1
       /\ ImportError[1] \in {"No valid Google Calendar token", "No sync state found",
                              "GoogleCalendarError", "store error"}
       /\ cal_result.results.limitless # SyncResult(0, <<>>)
       /\ cal_result.results.limitless.errors = <<>>
             => /\ cal_result.results.limitless.imported = 1
                /\ \E r \in RowsOf(cal_result.user_id) : r.limitless_id = "l1"
       /\ cal_result.results.conflicts
             = detect_conflicts(calendar_events, cal_result.user_id)

\* C26 witness: the upsert of the second Google event raised; the first event
\* and the meeting were imported and their overlap is reported.
C26_Witness ==
    /\ SyncReturned
    /\ ImportError = <<"store error">>
    /\ cal_result.results.google.imported = 1
    /\ cal_result.results.limitless.imported = 1
    /\ cal_result.results.conflicts # {}

\* the other failures of C26 are reached too
C26_NoTokenReached ==
    /\ SyncReturned
    /\ ImportError = <<"No valid Google Calendar token">>
    /\ cal_result.results.limitless.imported = 1

C26_NoSyncStateReached ==
    /\ SyncReturned
    /\ ImportError = <<"No sync state found">>
    /\ cal_result.results.limitless.imported = 1

C26_ProviderErrorReached ==
    /\ SyncReturned
    /\ ImportError = <<"GoogleCalendarError">>
    /\ cal_result.results.limitless.imported = 1

\* the answer of get_events that carries a sync token
AnswerWith(next_sync_token) ==
    CHOOSE answer \in SeqToSet(GoogleResponses) : answer.next_sync_token = next_sync_token

\* the columns of a row that the claim names are those of the remote event
HasRemoteVersion(r, event) ==
    /\ r.title = <<event.title>>
    /\ r.description = event.description
    /\ r.start_time = event.start_time
    /\ r.end_time = event.end_time
    /\ r.location = event.location
    /\ r.attendees = event.attendees
    /\ r.status = event.status

\* C27: when an import pass that succeeds lists an event that the user already
\* has a row for, that row (and no other) carries afterwards the title,
\* description, start and end time, location, attendees and status of the
\* remote version, whatever a local edit had put there.
C27_ReimportOverwritesLocalEdits ==
    [][(ImportRequested /\ cal_result'.results.google.errors = <<>>)
       => LET events == AnswerWith(cal_result'.requests[1].answer).events
          IN  \A i \in 1 .. Len(events) :
                 \A r \in RowsOf(cal_result'.user_id) :
                    r.google_event_id = events[i].id
                    => \E q \in calendar_events' :
                          /\ q.id = r.id
                          /\ q.google_event_id = r.google_event_id
                          /\ HasRemoteVersion(q, events[i])]_vars

\* C27 witness: the row of the Google event g1 was edited by update_event (the
\* provider refused the remote update, which left its error on the row) and a
\* sync has put the remote version back.
C27_Witness ==
    /\ cal_result.op = "sync"
    /\ ImportSucceeded
    /\ \E r \in RowsOf("u1") :
          /\ r.google_event_id = "g1"
          /\ r.sync_error = "GoogleCalendarError"
          /\ HasRemoteVersion(r, GoogleResponses[1].events[1])

\* the calls of the Calendar API that the sync engine makes with a stored token
CalendarCalls == {"get_events", "create_event", "update_event", "delete_event"}

\* C28: every get_events, create, update and delete request of an operation is
\* made after a token check of that operation, with the token the check gave;
\* an operation whose check gave no valid token makes no such request.
C28_TokenCheckedBeforeRemoteCall ==
    /\ \A i \in 1 .. Len(cal_result.requests) :
          cal_result.requests[i].api \in CalendarCalls
          => /\ cal_result.checked
             /\ cal_result.token.access_token # NoToken
             /\ cal_result.requests[i].access_token = cal_result.token.access_token
    /\ (cal_result.checked /\ cal_result.token.access_token = NoToken)
          => cal_result.requests = <<>>

\* C28 witness: create_event has checked the token, refreshed it, and created
\* the remote event with the new token.
C28_Witness ==
    /\ cal_result.op = "create"
    /\ cal_result.checked
    /\ cal_result.token.refresh = "ok"
    /\ cal_result.requests # <<>>
    /\ cal_result.requests[1].api = "create_event"
    /\ cal_result.requests[1].access_token = cal_result.token.access_token

\* the other case of C28 is reached too: a delete without a valid token
C28_NoTokenNoCallReached ==
    /\ cal_result.op = "delete"
    /\ cal_result.checked
    /\ cal_result.token.access_token = NoToken
    /\ cal_result.requests = <<>>

\* C29: a user never has two token records; after a connect that returned there
\* is exactly one; a refresh leaves exactly one, with the new access token and
\* the new expiresAt, and with the refresh token it had.
C29_OneTokenRecord ==
    /\ [](\A user_id \in Users :
             /\ Cardinality(TokenRows(user_calendar_tokens, user_id)) <= 1
             /\ (cal_result.op = "connect" /\ ~cal_result.raised
                   /\ cal_result.user_id = user_id)
                => Cardinality(TokenRows(user_calendar_tokens, user_id)) = 1)
    /\ [][(cal_calls' # cal_calls /\ cal_result'.checked
             /\ cal_result'.token.refresh = "ok")
          => LET user_id == cal_result'.user_id
                 old == CHOOSE r \in TokenRows(cal_result'.token_before, user_id) : TRUE
             IN  \E new \in user_calendar_tokens' :
                   /\ TokenRows(user_calendar_tokens', user_id) = {new}
                   /\ new.access_token_encrypted
                         = encrypt_token(cal_result'.token.access_token)
                   /\ new.access_token_encrypted # old.access_token_encrypted
                   /\ new.expires_at \in {now + expires_in : expires_in \in ExpiresIn}
                   /\ new.refresh_token_encrypted = old.refresh_token_encrypted
                   /\ new.refresh_token_encrypted # NoCipher]_vars

\* C29 witness: a connect and then a sync that refreshed the token to one
\* hour: one record, with the second access token and the refresh token.
C29_Witness ==
    /\ cal_result.op = "sync"
    /\ cal_result.token.refresh = "ok"
    /\ \E r \in user_calendar_tokens :
          /\ TokenRows(user_calendar_tokens, "u1") = {r}
          /\ r.access_token_encrypted = encrypt_token(FirstToken + 1)
          /\ r.expires_at = cal_result.at + 60
          /\ r.refresh_token_encrypted = encrypt_token("rt")

\* the other case of C29 is reached too: a second connect
C29_ReconnectReached ==
    /\ cal_result.op = "connect"
    /\ ~cal_result.raised
    /\ cal_calls = 2
    /\ Cardinality(TokenRows(user_calendar_tokens, "u1")) = 1
    /\ Cardinality(SyncStateRows(calendar_sync_state, "u1")) = 1

\* C30: every conflict a sync reports pairs two rows of the user of the sync,
\* neither of them deleted; the detector flags no pair with a deleted row or
\* with rows of two users; and after delete_event the detector reports no
\* conflict with the deleted row.
C30_NoConflictWithDeletedEvent ==
    /\ [](SyncReturned
            => \A c \in cal_result.results.conflicts : \A i \in 1 .. 2 :
                  \E r \in calendar_events :
                     /\ r.id = c.events[i]
                     /\ r.user_id = cal_result.user_id
                     /\ r.sync_status # "deleted")
    /\ [](\A e1 \in calendar_events, e2 \in calendar_events :
             Flagged(e1, e2) => /\ e1.user_id = e2.user_id
                                /\ e1.sync_status # "deleted"
                                /\ e2.sync_status # "deleted")
    /\ [][(cal_calls' # cal_calls /\ cal_result'.op = "delete" /\ ~cal_result'.raised)
          => \A c \in detect_conflicts(calendar_events', cal_result'.user_id) :
                cal_result'.event_id \notin {c.events[1], c.events[2]}]_vars

\* C30 witness: the meeting row, which overlaps the exported event and a Google
\* event, was deleted; the sync that followed reports conflicts, none of them
\* with the meeting.
C30_Witness ==
    /\ cal_result.op = "sync"
    /\ cal_result.results.conflicts # {}
    /\ \E r \in RowsOf("u1"), q \in RowsOf("u1") :
          /\ r.limitless_id = "l1"
          /\ r.sync_status = "deleted"
          /\ q.source # r.source
          /\ q.sync_status # "deleted"
          /\ q.start_time < r.end_time
          /\ q.end_time > r.start_time

\* ------------------------------------------------ lifelog: resumption claims

\* the dates the run that just ended recorded in SyncState.errors
FailedDates == {sync_state.errors[i] : i \in 1 .. Len(sync_state.errors)}

\* C31: an incremental_sync that follows a sync_from_date run in which a date D
\* (not after today) failed starts at or before D, so that its range, which
\* ends today, holds D and D is processed again: resuming from the persisted
\* last_sync_date never skips a failed date.
C31_ResumptionRetriesFailedDates ==
    [][(/\ runs' # runs
        /\ call'.op = "incremental_sync"
        /\ call.op = "sync_from_date"
        /\ pc \in {"returned", "raised"})
          => \A d \in FailedDates : d <= Today => call'.start_date <= d]_vars

\* ------------------------------------------- calendar: event status claims

\* the events the user authored in this application
LocalEvents == {r \in calendar_events : r.source = "ccopinai"}

\* C32: after any sequence of create_event, update_event and delete_event,
\* every locally authored event whose sync_status is 'synced' has a
\* google_event_id: no event is marked synced without having been created at
\* the provider.
C32_SyncedLocalEventHasExternalId ==
    \A r \in LocalEvents : r.sync_status = "synced" => r.google_event_id # Null

\* the rows that delete_event or disconnect_google_calendar marked deleted
DeletedEvents == {r \in calendar_events : r.sync_status = "deleted"}

\* C33: once an event is marked deleted, no later import or sync pass
\* (sync_user_calendar, or the first sync of connect_google_calendar) sets its
\* sync_status back to a non-deleted value: a deletion is never undone by a
\* refresh from the provider.
C33_ImportKeepsDeletion ==
    [][(cal_calls' # cal_calls /\ cal_result'.op \in {"sync", "connect"})
          => \A r \in DeletedEvents :
                \E q \in calendar_events' : q.id = r.id /\ q.sync_status = "deleted"]_vars

\* ------------------------------------------- calendar: import pass claims

\* the step is an import pass that ran its UPDATE of the sync state
SyncStateRecorded ==
    /\ ImportRequested
    /\ cal_result'.results.google.errors = <<>>
    /\ SyncStateRows(calendar_sync_state', cal_result'.user_id) # {}
    /\ SyncStateOf(calendar_sync_state', cal_result'.user_id).full_sync_completed

\* C35: whenever an import pass sets full_sync_completed to true, every event
\* the provider holds for the pull, on whatever page of the answer it lies,
\* has a row of the user: the marker is never set after a partial import.
C35_FullSyncCompletedMeansAllPages ==
    [][SyncStateRecorded
       => LET answer == AnswerWith(cal_result'.requests[1].answer)
              held   == answer.events \o LaterPages(answer.next_page_token)
          IN  \A i \in 1 .. Len(held) :
                 \E q \in calendar_events' :
                    /\ q.user_id = cal_result'.user_id
                    /\ q.google_event_id = held[i].id]_vars

\* the step is an import pass that requested the events and failed: the
\* provider call raised, or the upsert of an event did
ImportFailed ==
    /\ ImportRequested
    /\ cal_result'.results.google.errors # <<>>

\* the sync state the import pass of the step found: connect_google_calendar
\* initializes it before its first sync
StateBeforeImport ==
    IF cal_result'.op = "connect"
    THEN initialize_sync_state(calendar_sync_state, cal_result'.user_id, "primary")
    ELSE calendar_sync_state

\* the last operation ran an import pass that requested the events and failed
LastImportFailed ==
    /\ SyncReturned
    /\ cal_result.requests # <<>>
    /\ ImportError # <<>>

\* C36: an import pass that fails (the provider call raises, or a store
\* failure occurs after earlier events of the pull were stored) leaves the
\* stored next_sync_token and full_sync_completed as they were, so that the
\* next sync of the same kind repeats the same pull: it sends the same sync
\* token, or asks for the full window again when none was sent.
C36_FailedImportKeepsSyncToken ==
    /\ [][ImportFailed
          => LET user_id == cal_result'.user_id
                 before  == SyncStateOf(StateBeforeImport, user_id)
                 after   == SyncStateOf(calendar_sync_state', user_id)
             IN  /\ SyncStateRows(calendar_sync_state', user_id) # {}
                 /\ after.next_sync_token = before.next_sync_token
                 /\ after.full_sync_completed = before.full_sync_completed]_vars
    /\ [][(/\ LastImportFailed
           /\ ImportRequested
           /\ cal_result'.op = "sync"
           /\ cal_result'.user_id = cal_result.user_id
           /\ cal_result'.force_full_sync = cal_result.force_full_sync)
          => /\ cal_result'.requests[1].params.syncToken
                   = cal_result.requests[1].params.syncToken
             /\ (cal_result'.at = cal_result.at
                    => cal_result'.requests[1].params = cal_result.requests[1].params)]_vars

\* C36 witness: the upsert of the second event of an incremental pull made
\* with the token "s2" raised after the first event was stored; the answer
\* carried the token "s1", and the stored token is still "s2".
C36_Witness ==
    /\ LastImportFailed
    /\ cal_result.op = "sync"
    /\ ImportError = <<"store error">>
    /\ cal_result.results.google.imported = 1
    /\ cal_result.requests[1].params.syncToken = <<"s2">>
    /\ cal_result.requests[1].answer = "s1"
    /\ StoredSyncToken(calendar_sync_state, "u1") = "s2"
    /\ SyncStateOf(calendar_sync_state, "u1").full_sync_completed

\* the pull is repeated: two syncs in a row, the first of which failed at the
\* provider, sent the token "s1"
C36_RepeatedPullReached ==
    /\ cal_calls = 2
    /\ cal_faults = 1
    /\ cal_result.op = "sync"
    /\ ImportSucceeded
    /\ cal_result.requests[1].params.syncToken = <<"s1">>
    /\ cal_result.requests[1].answer = "s2"
    /\ EventsImported(calendar_sync_state, "u1")
          = EventsImported(ConnectedTables.state, "u1")

\* ------------------------------------------------ lifelog: item failures

\* the page the cursor loop is about to fetch
CurrentPage == list_lifelogs_by_date(current_date, loop.cursor)

\* the lifelogs of that page whose save succeeded in the step
SavedInStep ==
    {lifelog \in SeqToSet(CurrentPage.lifelogs) :
        saves'[<<call.user_id, lifelog>>] = saves[<<call.user_id, lifelog>>] + 1}

\* the number of saves of the page that raised in the step: the failures the
\* step met, less the one of the batch_processed callback if that raised
FailedInStep == faults' - faults - (IF failed_at' = "batch_processed" THEN 1 ELSE 0)

\* the step fetched a page and processed it
PageProcessed == pc = "cursor_loop" /\ failed_at' # "list_lifelogs_by_date"

\* C37: a lifelog whose save fails does not abort its page or its date. Every
\* other lifelog of the page is saved, wherever it lies on the page, and the
\* count of the date grows by the saved ones only; the cursor loop goes on to
\* the next page, or returns after the last one; and the date that follows is
\* completed and persisted with a total_synced that counts the saved lifelogs.
C37_ItemFailureDoesNotAbort ==
    /\ [][PageProcessed
          => /\ Cardinality(SavedInStep) = Len(CurrentPage.lifelogs) - FailedInStep
             /\ \A lifelog \in SavedInStep :
                   ExistingTranscripts(transcripts', lifelog, call.user_id) # {}
             /\ \A lifelog \in SeqToSet(CurrentPage.lifelogs) \ SavedInStep :
                   saves'[<<call.user_id, lifelog>>] = saves[<<call.user_id, lifelog>>]
             /\ loop'.total_synced = loop.total_synced + Cardinality(SavedInStep)
             /\ (failed_at' = "none"
                    => pc' = IF CurrentPage.has_more THEN "cursor_loop" ELSE "date_ok")]_vars
    /\ [][(pc = "date_ok" /\ failed_at' = "none")
          => /\ loop.total_synced = date_writes
             /\ sync_state'.errors = sync_state.errors
             /\ PersistedState(db_sync_state') # {}
             /\ \A r \in PersistedState(db_sync_state') :
                   /\ r.last_sync_date = current_date
                   /\ r.total_synced = sync_state.total_synced + date_writes]_vars

\* C37 witness: the save of "a", the first lifelog of the first page of day 1,
\* failed; "b" of the same page and "c" of the next page were saved, and day 1
\* was completed and persisted with total_synced = 2 and no error.
C37_Witness ==
    /\ call.op = "sync_from_date"
    /\ runs = 1
    /\ current_date = 2
    /\ 1 \in completed
    /\ saves[<<"u1", "a">>] = 0
    /\ saves[<<"u1", "b">>] = 1
    /\ saves[<<"u1", "c">>] = 1
    /\ sync_state.total_synced = 2
    /\ sync_state.errors = <<>>
    /\ \E r \in PersistedState(db_sync_state) : r.last_sync_date = 1 /\ r.total_synced = 2

\* ------------------------------------------------ lifelog: returned state

\* sync_from_date has returned its SyncState for a valid range
RunReturned == RunStarted /\ pc = "returned" /\ call.start_date <= call.end_date

\* C38: the last_sync_date of the SyncState that sync_from_date returns is the
\* persisted last_sync_date at the end of the run, and it is a date of the
\* range whose sync succeeded in this run (one that is not in its errors).
C38_ReturnedLastSyncDateIsPersisted ==
    RunReturned
    => /\ PersistedState(db_sync_state) # {}
       /\ \A r \in PersistedState(db_sync_state) :
             r.last_sync_date = sync_state.last_sync_date
       /\ sync_state.last_sync_date \in call.start_date .. call.end_date
       /\ sync_state.last_sync_date \notin FailedDates

\* ------------------------------------------------ lifelog: overlapping runs

====
